---------------------------- MODULE Spec2Model ----------------------------
(***************************************************************************)
(* A model of the make-notes alignment engine (mn/transcribe.py): align()  *)
(* with its word attribution and run merging, and the JSONL codec; the     *)
(* editable-text codec and the editor launcher (mn/edit.py, mn/fmt.py);    *)
(* label_speakers(); the batch command (mn/cli.py).                        *)
(*                                                                         *)
(* Times are exact numbers of half ticks, so that every timestamp drawn    *)
(* for a word or a turn is even and the midpoint (start + end) / 2 of the  *)
(* code is an integer.  Strings are sequences of one-character strings.    *)
(***************************************************************************)
EXTENDS Integers, Sequences, FiniteSets, TLC

VARIABLES
    words,       \* align: the word list handed to align()
    turns,       \* align: the speaker_segments handed to align()
    attributed,  \* align: the local list `attributed` (empty until it is built)
    segments,    \* align: the returned list of Segments
    pc,          \* "ready" before the call, then which branch of align() returned
    jsegs,       \* JSONL: the segments handed to to_jsonl()
    jlines,      \* JSONL: the lines a text handed to from_jsonl() was assembled from
    jtext,       \* JSONL: the text, as to_jsonl() returned it or as it came in
    jout,        \* JSONL: what from_jsonl() returned or raised
    jpc,         \* JSONL: "segments", "text", "parsed"
    esegs,       \* editable: the segments handed to to_editable()
    elines,      \* editable: the lines a text handed to from_editable() was assembled from
    etext,       \* editable: the text, as to_editable() returned it or as it came in
    eout,        \* editable: the list from_editable() returned
    epc,         \* editable: "segments", "text", "parsed"; "timestamp", "time" for _parse_time
    lsegs,       \* label_speakers: the segments handed in
    lnames,      \* label_speakers: names, a list or a comma-separated string
    lout,        \* label_speakers: the list returned
    lpc,         \* label_speakers: "ready", "done"
    edSegs,      \* edit: the segments handed to edit()
    tmpDir,      \* edit: whether the directory of the staging file exists
    tmpFile,     \* edit: whether the staging file exists
    tmpContent,  \* edit: what the staging file holds
    edExit,      \* edit: how the editor ended: "notrun", "zero", "nonzero", "missing"
    edited,      \* edit: the local `edited`, the text read back
    edErr,       \* edit: the exception on its way to the caller, "none" if none
    edOut,       \* edit: the segments returned
    edpc,        \* edit: where edit() is
    bFiles,      \* batch: how many files the directory holds (len(files))
    bNext,       \* batch: the index i of the file the loop is at
    whisper,     \* batch: the transcription model handle, 0 for None
    diarizer,    \* batch: the diarization model handle, 0 for None
    whisperLoads,   \* batch: calls of load_whisper so far
    diarizerLoads,  \* batch: calls of load_diarizer so far
    bCalls,      \* batch: the handles each call of transcribe_and_diarize received, and how the file's turn ended
    bWritten,    \* batch: the output files written, as indices of files
    bFailed,     \* batch: the list `failed`, as indices of files
    bpc,         \* batch: where batch() is
    cArgs,       \* complete: the arguments base_url and allow_remote
    cEnv,        \* complete: the environment variable MN_API_BASE
    cUrl,        \* complete: the local variable base_url after the first line
    cSent,       \* complete: the URLs httpx.post was called with
    cpc,         \* complete: where complete() is
    fFlags,      \* config: for each key, the value given on the command line, or NotGiven
    fConfig,     \* config: for each key, the value in the config file, or NotGiven
    fArgs,       \* config: the argparse namespace
    fpc,         \* config: where the command is
    sigint,      \* record: the handler of SIGINT the process has
    rDuration,   \* record: whether duration is set
    rStop,       \* record: the flag `stop`
    rFrames,     \* record: len(frames)
    rpc          \* record: where record() is

alignVars == <<words, turns, attributed, segments, pc>>
jsonlVars == <<jsegs, jlines, jtext, jout, jpc>>
editVars == <<esegs, elines, etext, eout, epc>>
labelVars == <<lsegs, lnames, lout, lpc>>
editorVars == <<edSegs, tmpDir, tmpFile, tmpContent, edExit, edited, edErr, edOut, edpc>>
batchVars == <<bFiles, bNext, whisper, diarizer, whisperLoads, diarizerLoads, bCalls, bWritten, bFailed, bpc>>
vars == <<words, turns, attributed, segments, pc, jsegs, jlines, jtext, jout, jpc,
          esegs, elines, etext, eout, epc, lsegs, lnames, lout, lpc,
          edSegs, tmpDir, tmpFile, tmpContent, edExit, edited, edErr, edOut, edpc,
          bFiles, bNext, whisper, diarizer, whisperLoads, diarizerLoads, bCalls, bWritten, bFailed, bpc,
          cArgs, cEnv, cUrl, cSent, cpc, fFlags, fConfig, fArgs, fpc,
          sigint, rDuration, rStop, rFrames, rpc>>

(***************************************************************************)
(* Each part of the program is run by itself: the variables of the parts   *)
(* that are not running stay at these values.                              *)
(***************************************************************************)
AlignOff ==
    /\ words = <<>>
    /\ turns = <<>>
    /\ attributed = <<>>
    /\ segments = <<>>
    /\ pc = "off"

JsonlOff ==
    /\ jsegs = <<>>
    /\ jlines = <<>>
    /\ jtext = <<>>
    /\ jout = [err |-> "none", segs |-> <<>>]
    /\ jpc = "off"

EditOff ==
    /\ esegs = <<>>
    /\ elines = <<>>
    /\ etext = <<>>
    /\ eout = <<>>
    /\ epc = "off"

LabelOff ==
    /\ lsegs = <<>>
    /\ lnames = [isStr |-> FALSE, val |-> <<>>]
    /\ lout = <<>>
    /\ lpc = "off"

EditorOff ==
    /\ edSegs = <<>>
    /\ tmpDir = TRUE
    /\ tmpFile = FALSE
    /\ tmpContent = <<>>
    /\ edExit = "notrun"
    /\ edited = <<>>
    /\ edErr = "none"
    /\ edOut = <<>>
    /\ edpc = "off"

BatchOff ==
    /\ bFiles = 0
    /\ bNext = 1
    /\ whisper = 0
    /\ diarizer = 0
    /\ whisperLoads = 0
    /\ diarizerLoads = 0
    /\ bCalls = <<>>
    /\ bWritten = <<>>
    /\ bFailed = <<>>
    /\ bpc = "off"

\* Every part but `part` is off.
OthersOff(part) ==
    /\ IF part = "align" THEN TRUE ELSE AlignOff
    /\ IF part = "jsonl" THEN TRUE ELSE JsonlOff
    /\ IF part = "edit" THEN TRUE ELSE EditOff
    /\ IF part = "label" THEN TRUE ELSE LabelOff
    /\ IF part = "editor" THEN TRUE ELSE EditorOff
    /\ IF part = "batch" THEN TRUE ELSE BatchOff
    /\ IF part = "complete" THEN TRUE
       ELSE /\ cArgs = [base_url |-> <<>>, allow_remote |-> FALSE]
            /\ cEnv = [set |-> FALSE, val |-> <<>>]
            /\ cUrl = <<>>
            /\ cSent = <<>>
            /\ cpc = "off"
    /\ IF part = "config" THEN TRUE
       ELSE /\ fFlags = <<>>
            /\ fConfig = <<>>
            /\ fArgs = <<>>
            /\ fpc = "off"
    /\ IF part = "record" THEN TRUE
       ELSE /\ sigint = "original"
            /\ rDuration = FALSE
            /\ rStop = FALSE
            /\ rFrames = 0
            /\ rpc = "off"

\* A step of `part` leaves the other parts alone.
OthersUnchanged(part) ==
    /\ IF part = "align" THEN TRUE ELSE UNCHANGED alignVars
    /\ IF part = "jsonl" THEN TRUE ELSE UNCHANGED jsonlVars
    /\ IF part = "edit" THEN TRUE ELSE UNCHANGED editVars
    /\ IF part = "label" THEN TRUE ELSE UNCHANGED labelVars
    /\ IF part = "editor" THEN TRUE ELSE UNCHANGED editorVars
    /\ IF part = "batch" THEN TRUE ELSE UNCHANGED batchVars
    /\ IF part = "complete" THEN TRUE ELSE UNCHANGED <<cArgs, cEnv, cUrl, cSent, cpc>>
    /\ IF part = "config" THEN TRUE ELSE UNCHANGED <<fFlags, fConfig, fArgs, fpc>>
    /\ IF part = "record" THEN TRUE ELSE UNCHANGED <<sigint, rDuration, rStop, rFrames, rpc>>

(***************************************************************************)
(* Bounds of the model.                                                    *)
(***************************************************************************)
MaxWords == 3
MaxTurns == 2
MaxTick  == 2
MaxAttrTurns == 2
MaxAttrTick  == 3
MaxJSegs  == 2
MaxJText  == 2
MaxJLines == 3
MaxESegs  == 2
MaxELines == 4
MaxTsLen  == 4
MaxLSegs  == 3
MaxNames  == 2
MaxFiles  == 4
MaxFrames == 8

(***************************************************************************)
(* Helpers for Python built-ins.                                           *)
(***************************************************************************)
Max(a, b) == IF a >= b THEN a ELSE b

Min(a, b) == IF a <= b THEN a ELSE b

\* str.strip()'s whitespace, as far as the model's alphabet goes.
IsSpace(c) == c \in {" ", "\t", "\n", "\r"}

\* str.lstrip(): from the first character that is no whitespace on
LStrip(s) ==
    LET keep == {i \in 1..Len(s) : ~IsSpace(s[i])}
    IN  IF keep = {} THEN <<>>
        ELSE SubSeq(s, CHOOSE i \in keep : \A j \in keep : i <= j, Len(s))

\* str.rstrip(): up to the last character that is no whitespace
RStrip(s) ==
    LET keep == {i \in 1..Len(s) : ~IsSpace(s[i])}
    IN  IF keep = {} THEN <<>>
        ELSE SubSeq(s, 1, CHOOSE i \in keep : \A j \in keep : j <= i)

\* str.strip(): leading and trailing whitespace removed, the inside untouched.
Strip(s) == RStrip(LStrip(s))

\* "".join(texts)
Join(texts) ==
    LET F[k \in 0..Len(texts)] == IF k = 0 THEN <<>> ELSE F[k - 1] \o texts[k]
    IN  F[Len(texts)]

\* Segment(speaker, text, start, end)
Segment(speaker, text, start, end) ==
    [speaker |-> speaker, text |-> text, start |-> start, end |-> end]

(***************************************************************************)
(* align._find_speaker                                                     *)
(***************************************************************************)
\* ov = max(0.0, min(end, seg["end"]) - max(start, seg["start"]))
Overlap(start, end, seg) ==
    Max(0, Min(end, seg.end) - Max(start, seg.start))

\* Faulty variant of ScanStep: an equal overlap replaces best too.
ScanStepTieLast(acc, start, end, seg) ==
    LET ov == Overlap(start, end, seg)
    IN  IF ov >= acc.best_overlap /\ ov > 0
        THEN [best |-> seg.speaker, best_overlap |-> ov]
        ELSE acc

\* One iteration of the first loop: a strictly greater overlap replaces best.
ScanStep(acc, start, end, seg) ==
    LET ov == Overlap(start, end, seg)
    IN  IF ov > acc.best_overlap
        THEN [best |-> seg.speaker, best_overlap |-> ov]
        ELSE acc

\* The first loop over speaker_segments, from best, best_overlap = "Unknown", 0.0
RECURSIVE ScanFrom(_, _, _, _, _)
ScanFrom(acc, start, end, segs, i) ==
    IF i > Len(segs) THEN acc
    ELSE ScanFrom(ScanStep(acc, start, end, segs[i]), start, end, segs, i + 1)

BestOverlap(start, end, segs) ==
    ScanFrom([best |-> "Unknown", best_overlap |-> 0], start, end, segs, 1)

\* Faulty variant of MidContains: the end of the turn is left out.
MidContainsHalfOpen(mid, seg) == seg.start <= mid /\ mid < seg.end

\* seg["start"] <= mid <= seg["end"]
MidContains(mid, seg) == seg.start <= mid /\ mid <= seg.end

\* _find_speaker(start, end), with speaker_segments made a parameter
FindSpeaker(start, end, segs) ==
    LET mid == (start + end) \div 2
        r   == BestOverlap(start, end, segs)
        hit == {i \in 1..Len(segs) : MidContains(mid, segs[i])}
    IN  IF r.best_overlap = 0 /\ hit # {}
        THEN segs[CHOOSE i \in hit : \A j \in hit : i <= j].speaker
        ELSE r.best

\* attributed = [{**w, "speaker": _find_speaker(w["start"], w["end"])} for w in words]
Attribute(ws, segs) ==
    [i \in 1..Len(ws) |->
        [text |-> ws[i].text, start |-> ws[i].start, end |-> ws[i].end,
         speaker |-> FindSpeaker(ws[i].start, ws[i].end, segs)]]

(***************************************************************************)
(* align: the merge loop.  cur is <<>> for None, else <<the open dict>>.   *)
(***************************************************************************)
\* cur["text"] = cur["text"].strip(); segments.append(Segment(**cur))
Finalize(cur) ==
    Segment(cur.speaker, Strip(cur.text), cur.start, cur.end)

\* Faulty variant of MergeStep: a merged word does not move the end.
MergeStepKeepFirstEnd(st, w) ==
    IF st.cur = <<>> \/ w.speaker # st.cur[1].speaker
    THEN [segments |-> IF st.cur # <<>>
                       THEN Append(st.segments, Finalize(st.cur[1]))
                       ELSE st.segments,
          cur |-> <<[speaker |-> w.speaker, text |-> w.text,
                     start |-> w.start, end |-> w.end]>>]
    ELSE [segments |-> st.segments,
          cur |-> <<[st.cur[1] EXCEPT !.text = @ \o w.text]>>]

\* Faulty variant of MergeStep: the end is taken from the word's start.
MergeStepEndFromStart(st, w) ==
    IF st.cur = <<>> \/ w.speaker # st.cur[1].speaker
    THEN [segments |-> IF st.cur # <<>>
                       THEN Append(st.segments, Finalize(st.cur[1]))
                       ELSE st.segments,
          cur |-> <<[speaker |-> w.speaker, text |-> w.text,
                     start |-> w.start, end |-> w.end]>>]
    ELSE [segments |-> st.segments,
          cur |-> <<[st.cur[1] EXCEPT !.text = @ \o w.text, !.end = w.start]>>]

\* Faulty variant of MergeStep: a finished segment is put in front.
MergeStepPrepend(st, w) ==
    IF st.cur = <<>> \/ w.speaker # st.cur[1].speaker
    THEN [segments |-> IF st.cur # <<>>
                       THEN <<Finalize(st.cur[1])>> \o st.segments
                       ELSE st.segments,
          cur |-> <<[speaker |-> w.speaker, text |-> w.text,
                     start |-> w.start, end |-> w.end]>>]
    ELSE [segments |-> st.segments,
          cur |-> <<[st.cur[1] EXCEPT !.text = @ \o w.text, !.end = w.end]>>]

\* Faulty variant of MergeStep: the text of a merged word is left out.
MergeStepDropText(st, w) ==
    IF st.cur = <<>> \/ w.speaker # st.cur[1].speaker
    THEN [segments |-> IF st.cur # <<>>
                       THEN Append(st.segments, Finalize(st.cur[1]))
                       ELSE st.segments,
          cur |-> <<[speaker |-> w.speaker, text |-> w.text,
                     start |-> w.start, end |-> w.end]>>]
    ELSE [segments |-> st.segments,
          cur |-> <<[st.cur[1] EXCEPT !.end = w.end]>>]

\* One iteration of `for w in attributed`
MergeStep(st, w) ==
    IF st.cur = <<>> \/ w.speaker # st.cur[1].speaker
    THEN [segments |-> IF st.cur # <<>>
                       THEN Append(st.segments, Finalize(st.cur[1]))
                       ELSE st.segments,
          cur |-> <<[speaker |-> w.speaker, text |-> w.text,
                     start |-> w.start, end |-> w.end]>>]
    ELSE [segments |-> st.segments,
          cur |-> <<[st.cur[1] EXCEPT !.text = @ \o w.text, !.end = w.end]>>]

RECURSIVE MergeFrom(_, _, _)
MergeFrom(st, att, i) ==
    IF i > Len(att) THEN st
    ELSE MergeFrom(MergeStep(st, att[i]), att, i + 1)

\* Faulty variant of MergeRuns: the open segment is never appended.
MergeRunsNoFlush(att) ==
    MergeFrom([segments |-> <<>>, cur |-> <<>>], att, 1).segments

\* segments = []; cur = None; the loop; then the final `if cur:` append
MergeRuns(att) ==
    LET st == MergeFrom([segments |-> <<>>, cur |-> <<>>], att, 1)
    IN  IF st.cur # <<>>
        THEN Append(st.segments, Finalize(st.cur[1]))
        ELSE st.segments

\* Faulty variant of SingleSpeaker: the end is the first word's.
SingleSpeakerFirstEnd(ws) ==
    <<Segment("Speaker", Strip(Join([i \in 1..Len(ws) |-> ws[i].text])),
              ws[1].start, ws[1].end)>>

\* The `if not speaker_segments:` branch: one segment for everything.
SingleSpeaker(ws) ==
    <<Segment("Speaker", Strip(Join([i \in 1..Len(ws) |-> ws[i].text])),
              ws[1].start, ws[Len(ws)].end)>>

\* Faulty variant of AlignResult: the turns are tested before the words.
AlignResultTurnsFirst(ws, segs) ==
    IF segs = <<>>
    THEN IF ws = <<>> THEN <<Segment("Speaker", <<>>, 0, 0)>> ELSE SingleSpeaker(ws)
    ELSE IF ws = <<>> THEN <<>>
    ELSE MergeRuns(Attribute(ws, segs))

\* def align(words, speaker_segments), as a function of its two arguments
AlignResult(ws, segs) ==
    IF ws = <<>> THEN <<>>
    ELSE IF segs = <<>> THEN SingleSpeaker(ws)
    ELSE MergeRuns(Attribute(ws, segs))

(***************************************************************************)
(* The inputs align() is called with.                                      *)
(***************************************************************************)
Times(maxTick) == {2 * k : k \in 0..maxTick}

\* Whisper's word texts: a leading blank, or a trailing one.
WordTexts == {<<" ", "a">>, <<"b", " ">>}

Speakers == {"A", "B"}

SeqsUpTo(S, n) == UNION {[1..k -> S] : k \in 0..n}

WordSet(maxTick, texts) ==
    {[text |-> t, start |-> s, end |-> e] :
        t \in texts, s \in Times(maxTick), e \in Times(maxTick)}

TurnSet(maxTick) ==
    {[speaker |-> sp, start |-> s, end |-> e] :
        sp \in Speakers, s \in Times(maxTick), e \in Times(maxTick)}

Idle ==
    /\ attributed = <<>>
    /\ segments = <<>>
    /\ pc = "ready"
    /\ jsegs = <<>>
    /\ jlines = <<>>
    /\ jtext = <<>>
    /\ jout = [err |-> "none", segs |-> <<>>]
    /\ jpc = "off"
    /\ OthersOff("align")

\* Words with start <= end in any order, turns of positive length.
Init ==
    /\ words \in SeqsUpTo({w \in WordSet(MaxTick, WordTexts) : w.start <= w.end}, MaxWords)
    /\ turns \in SeqsUpTo({t \in TurnSet(MaxTick) : t.start < t.end}, MaxTurns)
    /\ Idle

(***************************************************************************)
(* align(), one action per return statement.                               *)
(***************************************************************************)
\* if not words: return []
AlignEmpty ==
    /\ pc = "ready"
    /\ words = <<>>
    /\ segments' = AlignResult(words, turns)
    /\ pc' = "empty"
    /\ UNCHANGED <<words, turns, attributed>>
    /\ OthersUnchanged("align")

\* if not speaker_segments: return [Segment("Speaker", ...)]
AlignNoTurns ==
    /\ pc = "ready"
    /\ words # <<>>
    /\ turns = <<>>
    /\ segments' = AlignResult(words, turns)
    /\ pc' = "single"
    /\ UNCHANGED <<words, turns, attributed>>
    /\ OthersUnchanged("align")

\* attribute every word, merge the runs, return segments
AlignMerge ==
    /\ pc = "ready"
    /\ words # <<>>
    /\ turns # <<>>
    /\ attributed' = Attribute(words, turns)
    /\ segments' = AlignResult(words, turns)
    /\ pc' = "merged"
    /\ UNCHANGED <<words, turns>>
    /\ OthersUnchanged("align")

Next ==
    \/ AlignEmpty
    \/ AlignNoTurns
    \/ AlignMerge

Spec == Init /\ [][Next]_vars

\* One word at a time against more turns on a finer grid: any word interval
\* (start after end included), turns of length zero included.
InitAttr ==
    /\ words \in {<<>>} \cup {<<w>> : w \in WordSet(MaxAttrTick, {<<"a">>})}
    /\ turns \in SeqsUpTo({t \in TurnSet(MaxAttrTick) : t.start <= t.end}, MaxAttrTurns)
    /\ Idle

SpecAttr == InitAttr /\ [][Next]_vars


(***************************************************************************)
(* Properties of align().  They are stated from the inputs and the result, *)
(* without the operators that compute the result.                          *)
(***************************************************************************)
\* The overlap of a word and a turn, as the claims define it.
OverlapOf(w, t) ==
    LET lo == IF w.start >= t.start THEN w.start ELSE t.start
        hi == IF w.end <= t.end THEN w.end ELSE t.end
    IN  IF hi - lo > 0 THEN hi - lo ELSE 0

\* The turns a word overlaps most, when it overlaps any.
MostOverlapping(w) ==
    {k \in 1..Len(turns) :
        /\ OverlapOf(w, turns[k]) > 0
        /\ \A j \in 1..Len(turns) : OverlapOf(w, turns[j]) <= OverlapOf(w, turns[k])}

\* The turns whose closed interval holds the word's midpoint.
HoldingMidpoint(w) ==
    {k \in 1..Len(turns) :
        2 * turns[k].start <= w.start + w.end /\ w.start + w.end <= 2 * turns[k].end}

Least(S) == CHOOSE k \in S : \A j \in S : k <= j

\* The positions where a run of equal attributed speakers starts.
RunStarts ==
    {i \in 1..Len(attributed) :
        i = 1 \/ attributed[i].speaker # attributed[i - 1].speaker}

\* The first and the last word of the k-th run.
RunFirst(k) ==
    CHOOSE i \in RunStarts : Cardinality({j \in RunStarts : j <= i}) = k

RunLast(k) ==
    IF k = Cardinality(RunStarts) THEN Len(attributed) ELSE RunFirst(k + 1) - 1

\* t is s without its leading and trailing whitespace, the inside untouched.
IsTrimOf(t, s) ==
    \E i \in 1..Len(s) + 1 : \E j \in 0..Len(s) :
        /\ t = SubSeq(s, i, j)
        /\ \A k \in 1..Len(s) : (k < i \/ k > j) => s[k] \in {" ", "\t", "\n", "\r"}
        /\ t # <<>> => (t[1] \notin {" ", "\t", "\n", "\r"}
                        /\ t[Len(t)] \notin {" ", "\t", "\n", "\r"})

\* The raw texts of words[i..j], concatenated in order.
RawText(i, j) ==
    LET F[k \in (i - 1)..j] == IF k < i THEN <<>> ELSE F[k - 1] \o words[k].text
    IN  F[j]

SortedByStart == \A i \in 1..Len(words) - 1 : words[i].start <= words[i + 1].start

SortedByEnd == \A i \in 1..Len(words) - 1 : words[i].end <= words[i + 1].end

\* C1: a word that overlaps some turn is attributed to the turn it overlaps
\* most, and among turns that tie for the greatest overlap to the one that
\* comes first in the turn list.
C1_GreatestOverlapFirstWins ==
    pc = "merged" =>
        \A i \in 1..Len(words) :
            MostOverlapping(words[i]) # {} =>
                attributed[i].speaker = turns[Least(MostOverlapping(words[i]))].speaker

\* C1 witness: two turns of different speakers tie for the greatest overlap
\* and the first of them got the word.
C1_Witness ==
    /\ pc = "merged"
    /\ \E i \in 1..Len(words) : \E a, b \in MostOverlapping(words[i]) :
        /\ a < b
        /\ turns[a].speaker # turns[b].speaker
        /\ attributed[i].speaker = turns[a].speaker

\* C2: a word that overlaps no turn goes to the first turn whose closed
\* interval holds its midpoint, and is "Unknown" exactly when no turn holds
\* it; a word that overlaps a turn is never "Unknown".
C2_MidpointFallback ==
    pc = "merged" =>
        \A i \in 1..Len(words) :
            LET w == words[i]
                zero == \A k \in 1..Len(turns) : OverlapOf(w, turns[k]) = 0
            IN  /\ (zero /\ HoldingMidpoint(w) # {}) =>
                       attributed[i].speaker = turns[Least(HoldingMidpoint(w))].speaker
                /\ zero => (attributed[i].speaker = "Unknown" <=> HoldingMidpoint(w) = {})
                /\ ~zero => attributed[i].speaker # "Unknown"

\* C2 witness: a word without overlap whose midpoint lies at the closed end
\* of a turn that is not the first one, and in no earlier turn.
C2_Witness ==
    /\ pc = "merged"
    /\ \E i \in 1..Len(words) :
        LET w == words[i]
        IN  /\ \A k \in 1..Len(turns) : OverlapOf(w, turns[k]) = 0
            /\ HoldingMidpoint(w) # {}
            /\ Least(HoldingMidpoint(w)) > 1
            /\ w.start + w.end = 2 * turns[Least(HoldingMidpoint(w))].end
            /\ attributed[i].speaker = turns[Least(HoldingMidpoint(w))].speaker

\* C3: the segments are the maximal runs of equal attributed speakers: one
\* segment per run, in order, so one more segment than speaker changes, and
\* no two adjacent segments of one speaker.
C3_MaximalRuns ==
    pc = "merged" =>
        /\ Len(segments) = Cardinality(RunStarts)
        /\ Len(segments) =
               1 + Cardinality({i \in 1..Len(attributed) - 1 :
                                   attributed[i].speaker # attributed[i + 1].speaker})
        /\ \A k \in 1..Len(segments) :
               \A i \in RunFirst(k)..RunLast(k) : attributed[i].speaker = segments[k].speaker
        /\ \A k \in 1..Len(segments) - 1 : segments[k].speaker # segments[k + 1].speaker

\* C3 witness: the speaker sequence A, B, A gave three segments A, B, A.
C3_Witness ==
    /\ pc = "merged"
    /\ Len(attributed) = 3
    /\ [i \in 1..3 |-> attributed[i].speaker] = <<"A", "B", "A">>
    /\ [k \in 1..Len(segments) |-> segments[k].speaker] = <<"A", "B", "A">>

\* C4: a segment starts where the first word of its run starts, ends where
\* the last word of its run ends, and its text is the raw texts of the run
\* concatenated in order and trimmed at both ends only.
C4_SegmentSpansRun ==
    pc = "merged" =>
        /\ Len(segments) = Cardinality(RunStarts)
        /\ \A k \in 1..Len(segments) :
               /\ segments[k].start = words[RunFirst(k)].start
               /\ segments[k].end = words[RunLast(k)].end
               /\ IsTrimOf(segments[k].text, RawText(RunFirst(k), RunLast(k)))

\* C4 witness: a run of several words whose last word ends elsewhere than
\* its first, with whitespace trimmed at both ends and whitespace kept inside.
C4_Witness ==
    /\ pc = "merged"
    /\ \E k \in 1..Len(segments) :
        LET raw == RawText(RunFirst(k), RunLast(k))
        IN  /\ RunLast(k) > RunFirst(k)
            /\ words[RunLast(k)].end # words[RunFirst(k)].end
            /\ raw[1] = " " /\ raw[Len(raw)] = " "
            /\ \E j \in 1..Len(segments[k].text) : segments[k].text[j] = " "

\* C5: without turns a non-empty word list gives exactly one segment,
\* labelled "Speaker", from the first word's start to the last word's end,
\* with the trimmed concatenation of all texts; no word is attributed.
C5_NoTurnsSingleSegment ==
    (pc # "ready" /\ words # <<>> /\ turns = <<>>) =>
        /\ pc = "single"
        /\ Len(segments) = 1
        /\ segments[1].speaker = "Speaker"
        /\ segments[1].start = words[1].start
        /\ segments[1].end = words[Len(words)].end
        /\ IsTrimOf(segments[1].text, RawText(1, Len(words)))
        /\ attributed = <<>>

\* C5 witness: several words, the last ending elsewhere than the first.
C5_Witness ==
    /\ pc = "single"
    /\ Len(words) >= 2
    /\ words[Len(words)].end # words[1].end
    /\ Len(segments) = 1

\* C6: without words align() returns the empty sequence, whatever the turns.
C6_EmptyWordsEmptyResult ==
    /\ (pc # "ready" /\ words = <<>>) => (pc = "empty" /\ segments = <<>>)
    /\ (pc = "ready" /\ words = <<>>) => ENABLED AlignEmpty

\* C6 witness: align([], turns) has returned for a non-empty turn list.
C6_Witness ==
    /\ pc = "empty"
    /\ turns # <<>>
    /\ segments = <<>>

\* C7: for words ordered by start, the segments' starts are non-decreasing
\* and are starts of words taken in word order.
C7_StartsNonDecreasing ==
    (pc = "merged" /\ SortedByStart) =>
        /\ \A k \in 1..Len(segments) - 1 : segments[k].start <= segments[k + 1].start
        /\ \E f \in [1..Len(segments) -> 1..Len(words)] :
               /\ \A k \in 1..Len(segments) : segments[k].start = words[f[k]].start
               /\ \A k \in 1..Len(segments) - 1 : f[k] < f[k + 1]

\* C7 witness: three segments with strictly increasing starts.
C7_Witness ==
    /\ pc = "merged"
    /\ SortedByStart
    /\ Len(segments) = 3
    /\ segments[1].start < segments[2].start
    /\ segments[2].start < segments[3].start

\* C8 as claimed: for words ordered by start, each with start <= end, the
\* segments' ends are non-decreasing.
C8_Original ==
    (pc = "merged" /\ SortedByStart /\ \A i \in 1..Len(words) : words[i].start <= words[i].end) =>
        \A k \in 1..Len(segments) - 1 : segments[k].end <= segments[k + 1].end

\* C8 amended: for words ordered by start whose ends are non-decreasing too,
\* each with start <= end, the segments' ends are non-decreasing.
C8_EndsNonDecreasing ==
    (/\ pc = "merged"
     /\ SortedByStart
     /\ SortedByEnd
     /\ \A i \in 1..Len(words) : words[i].start <= words[i].end) =>
        \A k \in 1..Len(segments) - 1 : segments[k].end <= segments[k + 1].end

\* C8 witness: words ordered by start and by end, a merged run followed by
\* a segment that ends later.
C8_Witness ==
    /\ pc = "merged"
    /\ SortedByStart
    /\ SortedByEnd
    /\ Len(words) = 3
    /\ Len(segments) = 2
    /\ segments[1].end < segments[2].end


(***************************************************************************)
(* The JSONL codec: to_jsonl and from_jsonl, character by character.       *)
(* A float is the exact decimal [m, e], standing for m / 10^e, with no     *)
(* trailing zero in its fraction: the value repr() writes and float()      *)
(* reads back.                                                             *)
(***************************************************************************)
QUOTE == "\""
BSL   == "\\"
NL    == "\n"
TAB   == "\t"
CR    == "\r"
\* One character outside ASCII (U+00E9), and the image of every other \uXXXX.
U00E9  == "U+00E9"
UOTHER == "U+XXXX"

DigitChars == <<"0", "1", "2", "3", "4", "5", "6", "7", "8", "9">>

HexChars == {DigitChars[i] : i \in 1..10} \cup {"a", "b", "c", "d", "e", "f", "A", "B", "C", "D", "E", "F"}

IsDigit(c) == \E d \in 1..10 : DigitChars[d] = c

DigitVal(c) == (CHOOSE d \in 1..10 : DigitChars[d] = c) - 1

Pow10(e) ==
    LET P[k \in 0..e] == IF k = 0 THEN 1 ELSE 10 * P[k - 1]
    IN  P[e]

\* The float a decimal numeral denotes: zeros at the end of the fraction
\* do not count.
Normalize(x) ==
    LET z == CHOOSE z \in 0..x.e :
                 /\ x.m % Pow10(z) = 0
                 /\ z = x.e \/ x.m % Pow10(z + 1) # 0
    IN  [m |-> x.m \div Pow10(z), e |-> x.e - z]

\* The last `width` digits of n, zeros kept.
PadDigits(n, width) ==
    [i \in 1..width |-> DigitChars[((n \div Pow10(width - i)) % 10) + 1]]

\* str(n) for a natural number below 10^9
Digits(n) ==
    PadDigits(n, CHOOSE k \in 1..9 : n < Pow10(k) /\ (k = 1 \/ n >= Pow10(k - 1)))

\* float.__repr__, which json.dumps writes: 0.0, 0.5, 1.25, 10.0
FloatRepr(x) ==
    Digits(x.m \div Pow10(x.e)) \o <<".">> \o
        (IF x.e = 0 THEN <<"0">> ELSE PadDigits(x.m % Pow10(x.e), x.e))

\* Faulty variant of EscapeChar: a newline is written as it is.
EscapeCharRawNewline(c) ==
    IF c = QUOTE THEN <<BSL, QUOTE>>
    ELSE IF c = BSL THEN <<BSL, BSL>>
    ELSE IF c = TAB THEN <<BSL, "t">>
    ELSE IF c = CR THEN <<BSL, "r">>
    ELSE IF c = U00E9 THEN <<BSL, "u", "0", "0", "e", "9">>
    ELSE <<c>>

\* json.dumps of one character of a string (ensure_ascii=True)
EscapeChar(c) ==
    IF c = QUOTE THEN <<BSL, QUOTE>>
    ELSE IF c = BSL THEN <<BSL, BSL>>
    ELSE IF c = NL THEN <<BSL, "n">>
    ELSE IF c = TAB THEN <<BSL, "t">>
    ELSE IF c = CR THEN <<BSL, "r">>
    ELSE IF c = U00E9 THEN <<BSL, "u", "0", "0", "e", "9">>
    ELSE <<c>>

\* json.dumps of a string
DumpsString(str) ==
    <<QUOTE>> \o Join([i \in 1..Len(str) |-> EscapeChar(str[i])]) \o <<QUOTE>>

KeySpeaker == <<"s", "p", "e", "a", "k", "e", "r">>
KeyText    == <<"t", "e", "x", "t">>
KeyStart   == <<"s", "t", "a", "r", "t">>
KeyEnd     == <<"e", "n", "d">>

\* json.dumps(asdict(s)): the keys in field order, ", " and ": " between
DumpsSegment(seg) ==
    <<"{">> \o DumpsString(KeySpeaker) \o <<":", " ">> \o DumpsString(seg.speaker)
    \o <<",", " ">> \o DumpsString(KeyText) \o <<":", " ">> \o DumpsString(seg.text)
    \o <<",", " ">> \o DumpsString(KeyStart) \o <<":", " ">> \o FloatRepr(seg.start)
    \o <<",", " ">> \o DumpsString(KeyEnd) \o <<":", " ">> \o FloatRepr(seg.end)
    \o <<"}">>

\* sep.join(parts)
JoinWith(sep, parts) ==
    LET F[k \in 0..Len(parts)] ==
            IF k = 0 THEN <<>>
            ELSE IF k = 1 THEN parts[1]
            ELSE F[k - 1] \o sep \o parts[k]
    IN  F[Len(parts)]

\* Faulty variant of ToJsonlText: every line ends with a newline.
ToJsonlTextNewlineEnded(segs) ==
    Join([i \in 1..Len(segs) |-> DumpsSegment(segs[i]) \o <<NL>>])

\* def to_jsonl(segments)
ToJsonlText(segs) ==
    JoinWith(<<NL>>, [i \in 1..Len(segs) |-> DumpsSegment(segs[i])])

(***************************************************************************)
(* json.loads, for the values a segment line holds: objects whose values   *)
(* are strings and numbers.  A parse step returns [ok, pos, val].          *)
(***************************************************************************)
ParseFail == [ok |-> FALSE, pos |-> 0, val |-> <<>>]

\* The first position from i on that holds no whitespace.
SkipWs(s, i) ==
    IF i > Len(s) THEN i
    ELSE CHOOSE j \in i..(Len(s) + 1) :
             /\ \A k \in i..(j - 1) : s[k] \in {" ", TAB, NL, CR}
             /\ j = Len(s) + 1 \/ s[j] \notin {" ", TAB, NL, CR}

\* The character an escape \c stands for; <<>> when there is none.
Unescape(c) ==
    IF c = QUOTE THEN <<QUOTE>>
    ELSE IF c = BSL THEN <<BSL>>
    ELSE IF c = "/" THEN <<"/">>
    ELSE IF c = "n" THEN <<NL>>
    ELSE IF c = "t" THEN <<TAB>>
    ELSE IF c = "r" THEN <<CR>>
    ELSE <<>>

\* The body of a string from position i on, up to its closing quote.
ScanString(s, i) ==
    LET Cons(c, r) == IF r.ok THEN [r EXCEPT !.val = c \o @] ELSE ParseFail
        R[p \in 1..(Len(s) + 1)] ==
            IF p > Len(s) THEN ParseFail
            ELSE IF s[p] = QUOTE THEN [ok |-> TRUE, pos |-> p + 1, val |-> <<>>]
            ELSE IF s[p] \in {NL, TAB, CR} THEN ParseFail
            ELSE IF s[p] # BSL THEN Cons(<<s[p]>>, R[p + 1])
            ELSE IF p + 1 > Len(s) THEN ParseFail
            ELSE IF s[p + 1] # "u"
            THEN IF Unescape(s[p + 1]) = <<>> THEN ParseFail
                 ELSE Cons(Unescape(s[p + 1]), R[p + 2])
            ELSE IF p + 5 <= Len(s) /\ \A k \in (p + 2)..(p + 5) : s[k] \in HexChars
            THEN Cons(IF SubSeq(s, p + 2, p + 5) = <<"0", "0", "e", "9">>
                      THEN <<U00E9>> ELSE <<UOTHER>>, R[p + 6])
            ELSE ParseFail
    IN  R[i]

ParseString(s, i) ==
    IF i <= Len(s) /\ s[i] = QUOTE THEN ScanString(s, i + 1) ELSE ParseFail

\* The end of the run of digits that starts at i.
DigitsEnd(s, i) ==
    IF i > Len(s) THEN i
    ELSE CHOOSE j \in i..(Len(s) + 1) :
             /\ \A k \in i..(j - 1) : IsDigit(s[k])
             /\ j = Len(s) + 1 \/ ~IsDigit(s[j])

\* int() of a run of digits
DigitsValue(ds) ==
    LET V[k \in 0..Len(ds)] == IF k = 0 THEN 0 ELSE 10 * V[k - 1] + DigitVal(ds[k])
    IN  V[Len(ds)]

\* digits [ "." digits ]
ParseNumber(s, i) ==
    LET Fraction(j, k) ==
            IF k = j + 1 THEN ParseFail
            ELSE [ok |-> TRUE, pos |-> k,
                  val |-> Normalize([m |-> DigitsValue(SubSeq(s, i, j - 1) \o SubSeq(s, j + 1, k - 1)),
                                     e |-> k - (j + 1)])]
        Number(j) ==
            IF j = i THEN ParseFail
            ELSE IF j <= Len(s) /\ s[j] = "." THEN Fraction(j, DigitsEnd(s, j + 1))
            ELSE [ok |-> TRUE, pos |-> j,
                  val |-> [m |-> DigitsValue(SubSeq(s, i, j - 1)), e |-> 0]]
    IN  Number(DigitsEnd(s, i))

ParseValue(s, i) ==
    IF i > Len(s) THEN ParseFail
    ELSE IF s[i] = QUOTE THEN ParseString(s, i)
    ELSE ParseNumber(s, i)

\* One "key": value pair at i; val is <<key, value>>.
ParsePair(s, i) ==
    LET Pair(k, v) ==
            IF ~v.ok THEN ParseFail
            ELSE [ok |-> TRUE, pos |-> v.pos, val |-> <<k.val, v.val>>]
        Colon(k, c) ==
            IF c > Len(s) \/ s[c] # ":" THEN ParseFail
            ELSE Pair(k, ParseValue(s, SkipWs(s, c + 1)))
        Key(k) == IF ~k.ok THEN ParseFail ELSE Colon(k, SkipWs(s, k.pos))
    IN  Key(ParseString(s, i))

\* The pairs of an object after those in acc, up to the closing brace.
ParseMembers(s, i, acc) ==
    LET Cons(x, r) == IF r.ok THEN [r EXCEPT !.val = x \o @] ELSE ParseFail
        M[p \in 1..(Len(s) + 1)] ==
            LET More(pr) == IF ~pr.ok THEN ParseFail ELSE Cons(<<pr.val>>, M[pr.pos])
                Member(c) ==
                    IF c > Len(s) THEN ParseFail
                    ELSE IF s[c] = "}" THEN [ok |-> TRUE, pos |-> c + 1, val |-> <<>>]
                    ELSE IF s[c] # "," THEN ParseFail
                    ELSE More(ParsePair(s, SkipWs(s, c + 1)))
            IN  Member(SkipWs(s, p))
    IN  Cons(acc, M[i])

\* An object at i; val is the sequence of its <<key, value>> pairs.
ParseObject(s, i) ==
    LET First(p) == IF ~p.ok THEN ParseFail ELSE ParseMembers(s, p.pos, <<p.val>>)
        Open(c) ==
            IF c > Len(s) THEN ParseFail
            ELSE IF s[c] = "}" THEN [ok |-> TRUE, pos |-> c + 1, val |-> <<>>]
            ELSE First(ParsePair(s, c))
    IN  Open(SkipWs(s, i + 1))

\* json.loads(line): [ok, kind, val]; the whole line must be one value.
JsonLoads(line) ==
    LET Whole(i, r) ==
            IF r.ok /\ SkipWs(line, r.pos) = Len(line) + 1
            THEN [ok |-> TRUE,
                  kind |-> IF line[i] = "{" THEN "object" ELSE "scalar",
                  val |-> r.val]
            ELSE [ok |-> FALSE, kind |-> "none", val |-> <<>>]
        Value(i) ==
            Whole(i, IF i <= Len(line) /\ line[i] = "{" THEN ParseObject(line, i)
                     ELSE ParseValue(line, i))
    IN  Value(SkipWs(line, 1))

\* dict lookup: the last pair with the key decides.
DictGet(pairs, key) ==
    pairs[CHOOSE i \in 1..Len(pairs) :
              /\ pairs[i][1] = key
              /\ \A j \in (i + 1)..Len(pairs) : pairs[j][1] # key][2]

\* Segment(**json.loads(line)): [err, seg]
LoadSegment(line) ==
    LET Build(r) ==
            IF ~r.ok THEN [err |-> "JSONDecodeError", seg |-> <<>>]
            ELSE IF r.kind # "object" THEN [err |-> "TypeError", seg |-> <<>>]
            ELSE IF {r.val[i][1] : i \in 1..Len(r.val)} # {KeySpeaker, KeyText, KeyStart, KeyEnd}
            THEN [err |-> "TypeError", seg |-> <<>>]
            ELSE [err |-> "none",
                  seg |-> Segment(DictGet(r.val, KeySpeaker), DictGet(r.val, KeyText),
                                  DictGet(r.val, KeyStart), DictGet(r.val, KeyEnd))]
    IN  Build(JsonLoads(line))

\* str.split(sep) for a one-character separator: the pieces between the
\* places where sep stands.
Split(s, sep) ==
    LET at == {i \in 1..Len(s) : s[i] = sep}
        Nth(k) == IF k = 0 THEN 0
                  ELSE IF k > Cardinality(at) THEN Len(s) + 1
                  ELSE CHOOSE i \in at : Cardinality({j \in at : j <= i}) = k
    IN  [k \in 1..(Cardinality(at) + 1) |-> SubSeq(s, Nth(k - 1) + 1, Nth(k) - 1)]

NotBlank(line) == Strip(line) # <<>>

\* Faulty variant of FromJsonlResult: a line that raises is skipped.
FromJsonlSkipBad(text) ==
    LET IsGood(r) == r.err = "none"
        Result(good) == [err |-> "none", segs |-> [i \in 1..Len(good) |-> good[i].seg]]
        Load(kept) == Result(SelectSeq([i \in 1..Len(kept) |-> LoadSegment(kept[i])], IsGood))
    IN  Load(SelectSeq(Split(Strip(text), NL), NotBlank))

\* def from_jsonl(text): the list, or the first exception raised building it
FromJsonlResult(text) ==
    LET Raised(res, bad) ==
            IF bad # {}
            THEN [err |-> res[CHOOSE i \in bad : \A j \in bad : i <= j].err, segs |-> <<>>]
            ELSE [err |-> "none", segs |-> [i \in 1..Len(res) |-> res[i].seg]]
        Result(res) == Raised(res, {i \in 1..Len(res) : res[i].err # "none"})
        Load(kept) == Result([i \in 1..Len(kept) |-> LoadSegment(kept[i])])
    IN  Load(SelectSeq(Split(Strip(text), NL), NotBlank))

(***************************************************************************)
(* The JSONL codec as a state machine: segments -> text -> parsed.         *)
(***************************************************************************)
\* Text characters: plain, blank, and each kind json.dumps escapes.
JAlphabet == {"n", " ", NL, QUOTE, BSL, U00E9}

JSpeakers == {<<"A">>, <<U00E9>>}

\* (start, end): 0.0 and 0.5, 10.0 and 100.05, 1.123456 and 2.654321
JTimePairs ==
    {<<[m |-> 0, e |-> 0], [m |-> 5, e |-> 1]>>,
     <<[m |-> 10, e |-> 0], [m |-> 10005, e |-> 2]>>,
     <<[m |-> 1123456, e |-> 6], [m |-> 2654321, e |-> 6]>>}

PlainSeg == Segment(<<"B">>, <<"h", "i">>, [m |-> 5, e |-> 1], [m |-> 125, e |-> 2])

\* Lists of up to MaxJSegs segments: any segment at one place, PlainSeg at the others.
InitJsonl ==
    /\ OthersOff("jsonl")
    /\ \/ jsegs = <<>>
       \/ \E k \in 1..MaxJSegs : \E p \in 1..k :
          \E sp \in JSpeakers : \E t \in SeqsUpTo(JAlphabet, MaxJText) : \E tp \in JTimePairs :
              jsegs = [i \in 1..k |-> IF i = p THEN Segment(sp, t, tp[1], tp[2]) ELSE PlainSeg]
    /\ jlines = <<>>
    /\ jtext = <<>>
    /\ jout = [err |-> "none", segs |-> <<>>]
    /\ jpc = "segments"

\* text = to_jsonl(segments)
ToJsonl ==
    /\ jpc = "segments"
    /\ jtext' = ToJsonlText(jsegs)
    /\ jpc' = "text"
    /\ UNCHANGED <<jsegs, jlines, jout>>
    /\ OthersUnchanged("jsonl")

\* from_jsonl(text): it returns the list or raises
FromJsonl ==
    /\ jpc = "text"
    /\ jout' = FromJsonlResult(jtext)
    /\ jpc' = "parsed"
    /\ UNCHANGED <<jsegs, jlines, jtext>>
    /\ OthersUnchanged("jsonl")

NextJsonl ==
    \/ ToJsonl
    \/ FromJsonl

SpecJsonl == InitJsonl /\ [][NextJsonl]_vars

(***************************************************************************)
(* from_jsonl on text that comes in from a file or a pipe: segment lines,  *)
(* blank lines and lines that are no segment object.                       *)
(***************************************************************************)
EscapedSeg == Segment(<<U00E9>>, <<QUOTE, NL>>, [m |-> 10, e |-> 0], [m |-> 10005, e |-> 2])

GoodChars == DumpsSegment(PlainSeg)

\* A line is named by its kind and a number; LineChars gives its text.
LineId(kind, n) == [kind |-> kind, n |-> n]

\* A line as to_jsonl writes it, and one with blanks around it (a \r\n file).
GoodLines == {LineId("good", n) : n \in 1..2}

BlankLines == {LineId("blank", n) : n \in 1..3}

\* Lines json.loads rejects: every proper prefix of a segment line (n below
\* the line's length), then text after the object, two objects on a line,
\* a raw tab and an unknown escape inside a string.
SyntaxBadLines == {LineId("JSONDecodeError", n) : n \in 1..(Len(GoodChars) + 3)}

\* Lines that are JSON but no segment object: a key missing, a key too
\* many, no object at all, an empty object.
ShapeBadLines == {LineId("TypeError", n) : n \in 1..4}

BadLines == SyntaxBadLines \cup ShapeBadLines

LineChars(l) ==
    IF l.kind = "good"
    THEN IF l.n = 1 THEN GoodChars ELSE <<" ">> \o DumpsSegment(EscapedSeg) \o <<CR>>
    ELSE IF l.kind = "blank"
    THEN IF l.n = 1 THEN <<>> ELSE IF l.n = 2 THEN <<" ">> ELSE <<TAB, CR>>
    ELSE IF l.kind = "JSONDecodeError"
    THEN IF l.n < Len(GoodChars) THEN SubSeq(GoodChars, 1, l.n)
         ELSE IF l.n = Len(GoodChars) THEN GoodChars \o <<"x">>
         ELSE IF l.n = Len(GoodChars) + 1 THEN GoodChars \o <<" ">> \o GoodChars
         ELSE IF l.n = Len(GoodChars) + 2
         THEN <<"{">> \o DumpsString(KeyText) \o <<":", QUOTE, TAB, QUOTE, "}">>
         ELSE <<"{">> \o DumpsString(KeyText) \o <<":", QUOTE, BSL, "x", QUOTE, "}">>
    ELSE IF l.n = 1
         THEN LET tail == <<",", " ">> \o DumpsString(KeyEnd) \o <<":", " ">>
                              \o FloatRepr(PlainSeg.end) \o <<"}">>
              IN  SubSeq(GoodChars, 1, Len(GoodChars) - Len(tail)) \o <<"}">>
         ELSE IF l.n = 2
         THEN SubSeq(GoodChars, 1, Len(GoodChars) - 1) \o <<",", " ">>
                  \o DumpsString(<<"x">>) \o <<":", " ", "1", "}">>
         ELSE IF l.n = 3 THEN DumpsString(<<"h", "i">>)
         ELSE <<"{", "}">>

\* The segment a good line holds.
LineSeg(l) == IF l.n = 1 THEN PlainSeg ELSE EscapedSeg

\* Up to MaxJLines lines, segment lines and blank ones, at most one of them
\* replaced by a line that is no segment object.
InitJsonlIn ==
    /\ OthersOff("jsonl")
    /\ jsegs = <<>>
    /\ \E ls \in SeqsUpTo(GoodLines \cup BlankLines, MaxJLines) :
           \/ jlines = ls
           \/ \E p \in 1..Len(ls) : \E b \in BadLines : jlines = [ls EXCEPT ![p] = b]
    /\ jtext = JoinWith(<<NL>>, [i \in 1..Len(jlines) |-> LineChars(jlines[i])])
    /\ jout = [err |-> "none", segs |-> <<>>]
    /\ jpc = "text"

NextJsonlIn == FromJsonl

SpecJsonlIn == InitJsonlIn /\ [][NextJsonlIn]_vars


(***************************************************************************)
(* Properties of the JSONL codec.                                          *)
(***************************************************************************)
\* C9: from_jsonl(to_jsonl(s)) = s: no error, the same number of segments
\* in the same order, every field of every segment equal.
C9_JsonlRoundTrip ==
    (jpc = "parsed" /\ jlines = <<>>) =>
        /\ jout.err = "none"
        /\ Len(jout.segs) = Len(jsegs)
        /\ \A i \in 1..Len(jsegs) :
               /\ jout.segs[i].speaker = jsegs[i].speaker
               /\ jout.segs[i].text = jsegs[i].text
               /\ jout.segs[i].start = jsegs[i].start
               /\ jout.segs[i].end = jsegs[i].end

\* C9 witness: two segments came back, one with a newline and a non-ASCII
\* character in its text and timestamps below the second.
C9_Witness ==
    /\ jpc = "parsed"
    /\ Len(jsegs) = 2
    /\ jsegs[2].text = <<NL, U00E9>>
    /\ jsegs[2].start = [m |-> 1123456, e |-> 6]
    /\ jout.err = "none"
    /\ Len(jout.segs) = 2

\* The segments of the lines that hold one, in line order.
ExpectedSegs ==
    LET IsGood(l) == l.kind = "good"
        good == SelectSeq(jlines, IsGood)
    IN  [i \in 1..Len(good) |-> LineSeg(good[i])]

NoSegmentLines == {i \in 1..Len(jlines) : jlines[i].kind \notin {"good", "blank"}}

ARROW == "U+2192"
\* A run of 307 characters 9, held as one character: the shortest numeral
\* of nines whose value times 60 is beyond the largest float.
NINES307 == "9{307}"

\* int(seconds): the fraction is cut off, towards zero
IntOfSeconds(ms) == IF ms >= 0 THEN ms \div 1000 ELSE -((-ms) \div 1000)

\* float(n) of a whole number of seconds
FloatOfSeconds(n) == n * 1000

\* f"{n:02d}"
Fmt02d(n) ==
    IF n < 0 THEN <<"-">> \o Digits(-n)
    ELSE IF n < 10 THEN <<"0">> \o Digits(n)
    ELSE Digits(n)

\* Faulty variant of FTime: the minutes wrap at the hour.
FTimeWrapHour(ms) ==
    Fmt02d((IntOfSeconds(ms) \div 60) % 60) \o <<":">> \o Fmt02d(IntOfSeconds(ms) % 60)

\* def _ftime(seconds): divmod(int(seconds), 60) as mm:ss
FTime(ms) ==
    Fmt02d(IntOfSeconds(ms) \div 60) \o <<":">> \o Fmt02d(IntOfSeconds(ms) % 60)

\* Faulty variant of EditHeader: the colon that ends the header is left out.
EditHeaderNoColon(seg) ==
    <<"[">> \o FTime(seg.start) \o <<" ", ARROW, " ">> \o FTime(seg.end)
        \o <<"]", " ">> \o seg.speaker

\* header = f"[{_ftime(s.start)} -> {_ftime(s.end)}] {s.speaker}:"
EditHeader(seg) ==
    <<"[">> \o FTime(seg.start) \o <<" ", ARROW, " ">> \o FTime(seg.end)
        \o <<"]", " ">> \o seg.speaker \o <<":">>

\* Faulty variant of ToEditableText: one newline between two blocks.
ToEditableTextNoBlankLine(segs) ==
    JoinWith(<<NL>>, [i \in 1..Len(segs) |-> EditHeader(segs[i]) \o <<NL>> \o segs[i].text])
        \o <<NL>>

\* def to_editable(segments)
ToEditableText(segs) ==
    JoinWith(<<NL, NL>>, [i \in 1..Len(segs) |-> EditHeader(segs[i]) \o <<NL>> \o segs[i].text])
        \o <<NL>>

\* int(str): blanks around, a sign, then digits only
IntOf(str) ==
    LET Value(sign, ds) ==
            IF ds # <<>> /\ \A i \in 1..Len(ds) : IsDigit(ds[i])
            THEN [ok |-> TRUE, val |-> sign * DigitsValue(ds)]
            ELSE [ok |-> FALSE, val |-> 0]
        Signed(t) ==
            IF t # <<>> /\ t[1] = "-" THEN Value(-1, Tail(t))
            ELSE IF t # <<>> /\ t[1] = "+" THEN Value(1, Tail(t))
            ELSE Value(1, t)
    IN  Signed(Strip(str))

\* What int() and a list index raise.
InvalidLiteral == [err |-> "ValueError", msg |-> "invalid literal for int() with base 10", val |-> 0]
IndexOutOfRange == [err |-> "IndexError", msg |-> "list index out of range", val |-> 0]

\* def _parse_time(ts): int(parts[0]) * 60 + int(parts[1]), evaluated left
\* to right; [err, msg, val]
ParseTime(ts) ==
    LET Second(a, b) ==
            IF ~b.ok THEN InvalidLiteral
            ELSE [err |-> "none", msg |-> "", val |-> a.val * 60 + b.val]
        First(parts, a) ==
            IF ~a.ok THEN InvalidLiteral
            ELSE IF Len(parts) < 2 THEN IndexOutOfRange
            ELSE Second(a, IntOf(parts[2]))
        Parts(parts) == First(parts, IntOf(parts[1]))
    IN  Parts(Split(ts, ":"))

\* _HEADER.match(line) for ^\[(\d+:\d+)\s*->\s*(\d+:\d+)\]\s*(.+?)\s*:$
\* [ok, g1, g2, g3]
MatchHeader(line) ==
    LET n == Len(line)
        \* \d takes every character of a run of nines
        digits == [i \in 1..n |-> IF line[i] = NINES307 THEN "9" ELSE line[i]]
        NoMatch == [ok |-> FALSE, g1 |-> <<>>, g2 |-> <<>>, g3 |-> <<>>]
        \* (.+?) between \s* and \s*: what is left of a blank run is its last character
        Group3(rest) == IF Strip(rest) = <<>> THEN <<rest[Len(rest)]>> ELSE Strip(rest)
        \* \d+:\d+ from i on: the position after it, 0 when it is not there
        Seconds(a, b) == IF b = a + 1 THEN 0 ELSE b
        Minutes(i, a) ==
            IF a = i \/ a > n THEN 0
            ELSE IF line[a] # ":" THEN 0
            ELSE Seconds(a, DigitsEnd(digits, a + 1))
        TimeEnd(i) == Minutes(i, DigitsEnd(digits, i))
        Label(g1, g2, k) ==
            IF n > k /\ line[n] = ":"
            THEN [ok |-> TRUE, g1 |-> g1, g2 |-> g2, g3 |-> Group3(SubSeq(line, k, n - 1))]
            ELSE NoMatch
        Close(g1, j, e) ==
            IF e = 0 \/ e > n THEN NoMatch
            ELSE IF line[e] # "]" THEN NoMatch
            ELSE Label(g1, SubSeq(line, j, e - 1), e + 1)
        Second(g1, j) == Close(g1, j, TimeEnd(j))
        Arrow(g1, c) ==
            IF c > n THEN NoMatch
            ELSE IF line[c] # ARROW THEN NoMatch
            ELSE Second(g1, SkipWs(line, c + 1))
        First(e) == IF e = 0 THEN NoMatch ELSE Arrow(SubSeq(line, 2, e - 1), SkipWs(line, e))
    IN  IF n >= 1 /\ line[1] = "[" THEN First(TimeEnd(2)) ELSE NoMatch

\* The members of a set of numbers in rising order.
SortedSeq(S) ==
    [k \in 1..Cardinality(S) |-> CHOOSE i \in S : Cardinality({j \in S : j <= i}) = k]

\* float(_parse_time(ts)) raises OverflowError: the number _parse_time
\* returns for this header timestamp is too large for a float.
FloatOverflows(ts) == \E i \in 1..Len(ts) : ts[i] = NINES307

\* from_editable(text) raises: a header's start or end cannot be converted.
FromEditableRaises(text) ==
    LET Bad(m) == m.ok /\ (FloatOverflows(m.g1) \/ FloatOverflows(m.g2))
        Lines(lines) == \E i \in 1..Len(lines) : Bad(MatchHeader(lines[i]))
    IN  Lines(Split(text, NL))

\* Faulty variant of FromEditableSegs: blocks are split at blank lines.
FromEditableByBlankLines(text) ==
    LET Block(lines, from, to) ==
            Segment(Strip(MatchHeader(lines[from]).g3),
                    Strip(JoinWith(<<NL>>, SubSeq(lines, from + 1, to - 1))),
                    FloatOfSeconds(ParseTime(MatchHeader(lines[from]).g1).val),
                    FloatOfSeconds(ParseTime(MatchHeader(lines[from]).g2).val))
        BlankAfter(lines, from) ==
            {i \in (from + 1)..(Len(lines) + 1) : i = Len(lines) + 1 \/ lines[i] = <<>>}
        Blocks(lines, heads) ==
            [k \in 1..Len(heads) |->
                Block(lines, heads[k],
                      CHOOSE i \in BlankAfter(lines, heads[k]) :
                          \A j \in BlankAfter(lines, heads[k]) : i <= j)]
        Lines(lines) == Blocks(lines, SortedSeq({i \in 1..Len(lines) : MatchHeader(lines[i]).ok}))
    IN  Lines(Split(text, NL))

\* Faulty variant of FromEditableSegs: what stands before the first header
\* goes into the text of the first block.
FromEditableLeadingKept(text) ==
    LET Block(lines, m, from, body, to) ==
            Segment(Strip(m.g3),
                    Strip(JoinWith(<<NL>>, SubSeq(lines, 1, from - 1) \o SubSeq(lines, body, to - 1))),
                    FloatOfSeconds(ParseTime(m.g1).val),
                    FloatOfSeconds(ParseTime(m.g2).val))
        Blocks(lines, heads) ==
            [k \in 1..Len(heads) |->
                Block(lines, MatchHeader(lines[heads[k]]),
                      IF k = 1 THEN heads[k] ELSE 1, heads[k] + 1,
                      IF k < Len(heads) THEN heads[k + 1] ELSE Len(lines) + 1)]
        Lines(lines) == Blocks(lines, SortedSeq({i \in 1..Len(lines) : MatchHeader(lines[i]).ok}))
    IN  Lines(Split(text, NL))

\* def from_editable(text)
FromEditableSegs(text) ==
    LET Block(lines, m, from, to) ==
            Segment(Strip(m.g3),
                    Strip(JoinWith(<<NL>>, SubSeq(lines, from + 1, to - 1))),
                    FloatOfSeconds(ParseTime(m.g1).val),
                    FloatOfSeconds(ParseTime(m.g2).val))
        Blocks(lines, heads) ==
            [k \in 1..Len(heads) |->
                Block(lines, MatchHeader(lines[heads[k]]), heads[k],
                      IF k < Len(heads) THEN heads[k + 1] ELSE Len(lines) + 1)]
        Lines(lines) == Blocks(lines, SortedSeq({i \in 1..Len(lines) : MatchHeader(lines[i]).ok}))
    IN  Lines(Split(text, NL))

(***************************************************************************)
(* The editable-text codec as a state machine: segments -> text -> parsed. *)
(***************************************************************************)
\* Speaker labels: plain, with a blank inside, ending in a colon, with a
\* blank in front, empty, of two lines.
ESpeakers == {<<"A">>, <<"A", " ", "B">>, <<"A", ":">>, <<" ", "A">>, <<>>, <<"A", NL, "B">>}

\* Texts: plain, two paragraphs, a blank at the end, empty, and one whose
\* second line reads as a header.
ETexts ==
    {<<"h", "i">>,
     <<"a", NL, NL, "b">>,
     <<"h", "i", " ">>,
     <<>>,
     <<"x", NL, "[", "0", ":", "0", ARROW, "0", ":", "0", "]", "y", ":">>}

\* (start, end) in milliseconds: 0 and 5, 59.999 and 60, 3661.5 and 6000.25,
\* -0.5 and 0.5, -5 and 1
ETimePairs ==
    {<<0, 5000>>, <<59999, 60000>>, <<3661500, 6000250>>, <<-500, 500>>, <<-5000, 1000>>}

PlainESeg == Segment(<<"B">>, <<"o", "k">>, 61000, 125500)

\* Lines of an edited text, each with what it is: headers (one with no
\* blanks around the arrow and blanks around the label, one with a start
\* of 307 digits), a blank line, a line of one blank, body lines (one with
\* blanks around its word), and lines that only look like a header (a
\* blank after the colon, no label).
ELinePool ==
    {[kind |-> "header", chars |-> <<"[", "0", "0", ":", "0", "0", " ", ARROW, " ", "0", "0", ":", "0", "5", "]", " ", "A", ":">>],
     [kind |-> "header", chars |-> <<"[", "1", ":", "5", ARROW, "6", "1", ":", "0", "1", "]", " ", " ", "B", " ", "C", " ", ":">>],
     [kind |-> "header", chars |-> <<"[", NINES307, ":", "0", "0", " ", ARROW, " ", "0", "0", ":", "0", "5", "]", " ", "A", ":">>],
     [kind |-> "blank", chars |-> <<>>],
     [kind |-> "blank", chars |-> <<" ">>],
     [kind |-> "body", chars |-> <<"h", "i">>],
     [kind |-> "body", chars |-> <<" ", "x", " ">>],
     [kind |-> "noise", chars |-> <<"[", "0", ":", "0", " ", ARROW, " ", "0", ":", "5", "]", " ", "A", ":", " ">>],
     [kind |-> "noise", chars |-> <<"[", "0", ":", "0", " ", ARROW, " ", "0", ":", "5", "]", ":">>]}

\* Strings handed to _parse_time: all of up to MaxTsLen characters, and
\* some longer ones.
TimeStrings ==
    SeqsUpTo({"1", "5", ":", "a"}, MaxTsLen)
        \cup {<<"6", "1", ":", "0", "1">>, <<"1", ":", "2", ":", "3">>, <<" ", "1", ":", "-", "2">>}

\* Either a list of up to MaxESegs segments for to_editable (any segment at
\* one place, PlainESeg at the others), or a text of up to MaxELines lines
\* for from_editable, or a string for _parse_time.
InitEdit ==
    /\ OthersOff("edit")
    /\ eout = <<>>
    /\ \/ /\ \/ esegs = <<>>
             \/ \E k \in 1..MaxESegs : \E p \in 1..k :
                \E sp \in ESpeakers : \E t \in ETexts : \E tp \in ETimePairs :
                    esegs = [i \in 1..k |-> IF i = p THEN Segment(sp, t, tp[1], tp[2]) ELSE PlainESeg]
          /\ elines = <<>>
          /\ etext = <<>>
          /\ epc = "segments"
       \/ /\ esegs = <<>>
          /\ elines \in SeqsUpTo(ELinePool, MaxELines)
          /\ etext = JoinWith(<<NL>>, [i \in 1..Len(elines) |-> elines[i].chars])
          /\ epc = "text"
       \/ /\ esegs = <<>>
          /\ elines = <<>>
          /\ etext \in TimeStrings
          /\ epc = "timestamp"

\* text = to_editable(segments)
ToEditable ==
    /\ epc = "segments"
    /\ etext' = ToEditableText(esegs)
    /\ epc' = "text"
    /\ UNCHANGED <<esegs, elines, eout>>
    /\ OthersUnchanged("edit")

\* from_editable(text)
FromEditable ==
    /\ epc = "text"
    /\ IF FromEditableRaises(etext)
       THEN /\ eout' = [err |-> "OverflowError", msg |-> "int too large to convert to float", val |-> 0]
            /\ epc' = "raised"
       ELSE /\ eout' = FromEditableSegs(etext)
            /\ epc' = "parsed"
    /\ UNCHANGED <<esegs, elines, etext>>
    /\ OthersUnchanged("edit")

\* _parse_time(ts): the number, or what it raises
ParseTimeCall ==
    /\ epc = "timestamp"
    /\ eout' = ParseTime(etext)
    /\ epc' = "time"
    /\ UNCHANGED <<esegs, elines, etext>>
    /\ OthersUnchanged("edit")

NextEdit ==
    \/ ToEditable
    \/ FromEditable
    \/ ParseTimeCall

SpecEdit == InitEdit /\ [][NextEdit]_vars

(***************************************************************************)
(* Claims about the editable round trip.                                   *)
(***************************************************************************)
\* from_editable has returned for the text to_editable made of esegs.
RoundTripDone == epc = "parsed" /\ etext = ToEditableText(esegs)

\* The round trip gave back as many segments, each with the speaker and the
\* text it had.
ContentKept ==
    /\ Len(eout) = Len(esegs)
    /\ \A i \in 1..Len(esegs) :
           /\ eout[i].speaker = esegs[i].speaker
           /\ eout[i].text = esegs[i].text

\* A segment the block format can hold: a one-line label and a text that
\* are both trimmed, the label not empty, no line of the text a header,
\* times not negative.
Holdable(seg) ==
    /\ seg.speaker # <<>>
    /\ Strip(seg.speaker) = seg.speaker
    /\ \A i \in 1..Len(seg.speaker) : seg.speaker[i] # NL
    /\ Strip(seg.text) = seg.text
    /\ \A k \in 1..Len(Split(seg.text, NL)) : ~MatchHeader(Split(seg.text, NL)[k]).ok
    /\ seg.start >= 0
    /\ seg.end >= 0

WholeSeconds(ms) == (ms \div 1000) * 1000

\* C12: for a segment with non-negative start and end, the start and end
\* that come back from from_editable(to_editable(s)) are the originals cut
\* to whole seconds (minutes * 60 + seconds, minutes beyond 59 allowed), so
\* each is less than one second below its original.
C12_RoundTripTimesTruncated ==
    RoundTripDone =>
        \A i \in 1..Len(esegs) :
            /\ esegs[i].start >= 0 =>
                   FloatOfSeconds(ParseTime(FTime(esegs[i].start)).val) = WholeSeconds(esegs[i].start)
            /\ esegs[i].end >= 0 =>
                   FloatOfSeconds(ParseTime(FTime(esegs[i].end)).val) = WholeSeconds(esegs[i].end)
            /\ (\A k \in 1..Len(esegs) : Holdable(esegs[k])) =>
                   /\ eout[i].start = WholeSeconds(esegs[i].start)
                   /\ eout[i].end = WholeSeconds(esegs[i].end)
                   /\ esegs[i].start - eout[i].start \in 0..999
                   /\ esegs[i].end - eout[i].end \in 0..999

\* A segment from 61:01.5 to 100:00.25 came back as 61:01 to 100:00.
C12_Witness ==
    /\ RoundTripDone
    /\ \A k \in 1..Len(esegs) : Holdable(esegs[k])
    /\ \E i \in 1..Len(esegs) :
           /\ esegs[i].start = 3661500
           /\ esegs[i].end = 6000250
           /\ eout[i].start = 3661000
           /\ eout[i].end = 6000000

(***************************************************************************)
(* Claims about from_editable on an edited text.                           *)
(***************************************************************************)
\* from_editable has returned for a text put together from the lines elines.
ParsedFromLines ==
    /\ epc = "parsed"
    /\ etext = JoinWith(<<NL>>, [i \in 1..Len(elines) |-> elines[i].chars])

\* Where the header lines of the text are, in order.
HeaderAt == SortedSeq({i \in 1..Len(elines) : elines[i].kind = "header"})

\* The lines between the k-th header and the next one (or the end).
BodyLines(k) ==
    SubSeq(elines, HeaderAt[k] + 1,
           IF k < Len(HeaderAt) THEN HeaderAt[k + 1] - 1 ELSE Len(elines))

\* Lines as one text again.
LinesText(ls) == JoinWith(<<NL>>, [i \in 1..Len(ls) |-> ls[i].chars])

\* The lines without the blank lines at their beginning and at their end.
TrimBlankLines(ls) ==
    LET keep == {i \in 1..Len(ls) : ls[i].kind # "blank"}
    IN  IF keep = {} THEN <<>>
        ELSE SubSeq(ls, CHOOSE i \in keep : \A j \in keep : i <= j,
                        CHOOSE i \in keep : \A j \in keep : j <= i)

\* C13 as stated: one segment per header line, in order, and the text of
\* each is all the text between its header and the next, with the blank
\* lines at its beginning and end trimmed.
C13_Original ==
    ParsedFromLines =>
        /\ Len(eout) = Len(HeaderAt)
        /\ \A k \in 1..Len(HeaderAt) : eout[k].text = LinesText(TrimBlankLines(BodyLines(k)))

\* C13, amended: from_editable returns one segment per header line, in
\* order; the text of each is all the text between its header and the next
\* header (or the end) with the whitespace at its beginning and end trimmed,
\* blank lines included; blank lines inside stay and split no block.
C13_BlocksByHeaderLines ==
    ParsedFromLines =>
        /\ Len(eout) = Len(HeaderAt)
        /\ \A k \in 1..Len(HeaderAt) : IsTrimOf(eout[k].text, LinesText(BodyLines(k)))

\* A header followed by a line, a blank line and another line gave one
\* segment whose text holds the blank line.
C13_Witness ==
    /\ ParsedFromLines
    /\ Len(elines) = 4
    /\ elines[1].kind = "header"
    /\ elines[2].kind = "body"
    /\ elines[3].chars = <<>>
    /\ elines[4].kind = "body"
    /\ Len(eout) = 1
    /\ eout[1].text = elines[2].chars \o <<NL, NL>> \o elines[4].chars

\* The text from its first header line on; nothing when it has no header.
FromFirstHeader ==
    IF Len(HeaderAt) = 0 THEN <<>>
    ELSE LinesText(SubSeq(elines, HeaderAt[1], Len(elines)))

\* C15: the lines before the first header line that are no header are
\* dropped without an error: they make no segment and are in no segment's
\* text, so the result is that of the text from the first header on.
C15_LeadingNoiseDropped ==
    ParsedFromLines =>
        /\ Len(eout) = Len(HeaderAt)
        /\ eout = FromEditableSegs(FromFirstHeader)
        /\ \A k \in 1..Len(HeaderAt) :
               /\ ParseTime(MatchHeader(elines[HeaderAt[k]].chars).g1).err = "none"
               /\ ParseTime(MatchHeader(elines[HeaderAt[k]].chars).g2).err = "none"
               /\ eout[k].speaker = Strip(MatchHeader(elines[HeaderAt[k]].chars).g3)

\* A line that only looks like a header and a line of text stood before the
\* one header; one segment came back, with none of them in its text.
C15_Witness ==
    /\ ParsedFromLines
    /\ Len(elines) = 4
    /\ elines[1].kind = "noise"
    /\ elines[2].kind = "body"
    /\ elines[3].kind = "header"
    /\ elines[4].chars = <<"h", "i">>
    /\ Len(eout) = 1
    /\ eout[1].text = <<"h", "i">>

(***************************************************************************)
(* Claims about _parse_time.                                               *)
(***************************************************************************)
\* Exactly two components around one colon, each of digits only.
IsMMSS(ts) ==
    /\ Len(Split(ts, ":")) = 2
    /\ \A k \in 1..2 :
           /\ Split(ts, ":")[k] # <<>>
           /\ \A i \in 1..Len(Split(ts, ":")[k]) : IsDigit(Split(ts, ":")[k][i])

\* C14 as stated: _parse_time returns minutes * 60 + seconds for "MM:SS"
\* and raises ValueError("Invalid timestamp ...") for every other string;
\* msg is the fixed part of the message.
C14_InvalidTimestampRaises ==
    epc = "time" =>
        IF IsMMSS(etext)
        THEN /\ eout.err = "none"
             /\ eout.val = DigitsValue(Split(etext, ":")[1]) * 60 + DigitsValue(Split(etext, ":")[2])
        ELSE /\ eout.err = "ValueError"
             /\ eout.msg = "Invalid timestamp"

\* What the code does: it returns a number for "1:2:3", raises IndexError
\* for "1", and ValueError with int()'s message for "a:b".
C14_Witness ==
    /\ epc = "time"
    /\ \/ etext = <<"1", ":", "2", ":", "3">> /\ eout.err = "none" /\ eout.val = 62
       \/ etext = <<"1">> /\ eout.err = "IndexError"
       \/ etext = <<"a", ":", "a">> /\ eout.err = "ValueError" /\ eout.msg # "Invalid timestamp"

(***************************************************************************)
(* label_speakers (mn/transcribe.py).                                      *)
(***************************************************************************)
\* names as a list: a string is split at its commas, each piece stripped
NamesList(names) ==
    IF names.isStr
    THEN [i \in 1..Len(Split(names.val, ",")) |-> Strip(Split(names.val, ",")[i])]
    ELSE names.val

\* seen: the speaker labels in order of first appearance
SeenSpeakers(segs) ==
    LET first == {i \in 1..Len(segs) : \A j \in 1..(i - 1) : segs[j].speaker # segs[i].speaker}
        At(order) == [k \in 1..Len(order) |-> segs[order[k]].speaker]
    IN  At(SortedSeq(first))

\* Faulty variant of LabelSpeakersResult: the i-th segment gets the i-th name.
LabelSpeakersBySegment(segs, names) ==
    LET Relabel(list) ==
            [i \in 1..Len(segs) |->
                Segment(IF i <= Len(list) THEN list[i] ELSE segs[i].speaker,
                        segs[i].text, segs[i].start, segs[i].end)]
    IN  Relabel(NamesList(names))

\* def label_speakers(segments, names)
LabelSpeakersResult(segs, names) ==
    LET Mapped(list, seen, sp) ==
            IF (CHOOSE k \in 1..Len(seen) : seen[k] = sp) <= Len(list)
            THEN list[CHOOSE k \in 1..Len(seen) : seen[k] = sp]
            ELSE sp
        Relabel(list, seen) ==
            [i \in 1..Len(segs) |->
                Segment(Mapped(list, seen, segs[i].speaker),
                        segs[i].text, segs[i].start, segs[i].end)]
    IN  Relabel(NamesList(names), SeenSpeakers(segs))

\* Segments of three speakers, two texts and two spans.
LSegments ==
    {Segment(sp, t, tp[1], tp[2]) :
        sp \in {<<"0">>, <<"1">>, <<"2">>}, t \in {<<"a">>, <<"b">>}, tp \in {<<0, 1>>, <<1, 2>>}}

\* Lists of up to MaxNames names (one of them a speaker label), and strings.
LNames ==
    {[isStr |-> FALSE, val |-> v] : v \in SeqsUpTo({<<"T">>, <<"C">>, <<"1">>}, MaxNames)}
        \cup {[isStr |-> TRUE, val |-> v] :
                 v \in {<<"T", ",", "C">>, <<" ", "T", " ", ",", " ", "C">>, <<"T">>, <<>>}}

InitLabel ==
    /\ OthersOff("label")
    /\ lsegs \in SeqsUpTo(LSegments, MaxLSegs)
    /\ lnames \in LNames
    /\ lout = <<>>
    /\ lpc = "ready"

\* label_speakers(segments, names)
LabelSpeakers ==
    /\ lpc = "ready"
    /\ lout' = LabelSpeakersResult(lsegs, lnames)
    /\ lpc' = "done"
    /\ UNCHANGED <<lsegs, lnames>>
    /\ OthersUnchanged("label")

SpecLabel == InitLabel /\ [][LabelSpeakers]_vars

(***************************************************************************)
(* Claims about label_speakers.                                            *)
(***************************************************************************)
\* How many distinct speakers have appeared when the speaker of segment i
\* appears first.
AppearanceRank(i) ==
    LET first == CHOOSE j \in 1..Len(lsegs) :
                     /\ lsegs[j].speaker = lsegs[i].speaker
                     /\ \A k \in 1..(j - 1) : lsegs[k].speaker # lsegs[i].speaker
    IN  Cardinality({lsegs[j].speaker : j \in 1..first})

\* C16: label_speakers gives the i-th distinct speaker, counted in order of
\* first appearance, the i-th name when there is one and leaves it as it is
\* otherwise; the new list has the length and order of the old one, every
\* segment keeps text, start and end, and the list handed in is not touched.
C16_FirstAppearanceMapping ==
    /\ [](lpc = "done" =>
            /\ Len(lout) = Len(lsegs)
            /\ \A i \in 1..Len(lsegs) :
                   /\ lout[i].text = lsegs[i].text
                   /\ lout[i].start = lsegs[i].start
                   /\ lout[i].end = lsegs[i].end
                   /\ lout[i].speaker =
                          IF AppearanceRank(i) <= Len(NamesList(lnames))
                          THEN NamesList(lnames)[AppearanceRank(i)]
                          ELSE lsegs[i].speaker)
    /\ [][lsegs' = lsegs /\ lnames' = lnames]_vars

\* Speakers 1, 0, 1 with the one name T: 1 became T, 0 stayed.
C16_Witness ==
    /\ lpc = "done"
    /\ Len(lsegs) = 3
    /\ lsegs[1].speaker = <<"1">>
    /\ lsegs[2].speaker = <<"0">>
    /\ lsegs[3].speaker = <<"1">>
    /\ lnames = [isStr |-> FALSE, val |-> <<<<"T">>>>]
    /\ lout[1].speaker = <<"T">>
    /\ lout[2].speaker = <<"0">>
    /\ lout[3].speaker = <<"T">>

(***************************************************************************)
(* edit() (mn/edit.py): the staging file, the editor, the clean-up.  The   *)
(* staging file is made in the system's directory for temporary files,     *)
(* which is there before the call.                                         *)
(***************************************************************************)
\* Lists handed to edit().
EdInputs ==
    {<<>>,
     <<PlainESeg>>,
     <<Segment(<<"A">>, <<"h", "i">>, 0, 5000)>>,
     <<PlainESeg, Segment(<<"A">>, <<"a", NL, NL, "b">>, 0, 5000)>>}

\* What the editor may leave in the file instead of what it found: another
\* transcript, a line that is no block, nothing.
EdEdits == {ToEditableText(<<Segment(<<"C">>, <<"o", "k">>, 0, 1000)>>), <<"h", "i">>, <<>>}

InitEditor ==
    /\ OthersOff("editor")
    /\ edSegs \in EdInputs
    /\ tmpDir = TRUE
    /\ tmpFile = FALSE
    /\ tmpContent = <<>>
    /\ edExit = "notrun"
    /\ edited = <<>>
    /\ edErr = "none"
    /\ edOut = <<>>
    /\ edpc = "start"

\* tempfile.NamedTemporaryFile(mode="w", ..., delete=False): the file is
\* made, empty, or the call raises and there is no file
CreateTemp ==
    /\ edpc = "start"
    /\ \/ tmpFile' = TRUE /\ edErr' = "none" /\ edpc' = "opened"
       \/ tmpFile' = FALSE /\ edErr' = "OSError" /\ edpc' = "raised"
    /\ UNCHANGED <<edSegs, tmpDir, tmpContent, edExit, edited, edOut>>
    /\ OthersUnchanged("editor")

\* f.write(text) and the end of the with block, which closes the file and
\* keeps it (delete=False); a failing write or close raises out of edit()
WriteText ==
    /\ edpc = "opened"
    /\ \/ tmpContent' = ToEditableText(edSegs) /\ edErr' = "none" /\ edpc' = "written"
       \/ tmpContent' = <<>> /\ edErr' \in {"OSError", "UnicodeEncodeError"} /\ edpc' = "raised"
    /\ UNCHANGED <<edSegs, tmpDir, tmpFile, edExit, edited, edOut>>
    /\ OthersUnchanged("editor")

\* Faulty variant of RunEditor: the exit status of the editor is not checked.
RunEditorUnchecked ==
    /\ edpc = "written"
    /\ \/ edExit' \in {"zero", "nonzero"} /\ tmpContent' \in {tmpContent} \cup EdEdits
          /\ edErr' = "none" /\ edpc' = "edited"
       \/ edExit' = "missing" /\ tmpContent' = tmpContent
          /\ edErr' = "FileNotFoundError" /\ edpc' = "cleanup"
    /\ UNCHANGED <<edSegs, tmpDir, tmpFile, edited, edOut>>
    /\ OthersUnchanged("editor")

\* subprocess.run([editor, tmp], check=True), inside try: the editor may
\* rewrite the file whether it ends well or not
RunEditor ==
    /\ edpc = "written"
    /\ \/ edExit' = "zero" /\ tmpContent' \in {tmpContent} \cup EdEdits
          /\ edErr' = "none" /\ edpc' = "edited"
       \/ edExit' = "nonzero" /\ tmpContent' \in {tmpContent} \cup EdEdits
          /\ edErr' = "CalledProcessError" /\ edpc' = "cleanup"
       \/ edExit' = "missing" /\ tmpContent' = tmpContent
          /\ edErr' = "FileNotFoundError" /\ edpc' = "cleanup"
    /\ UNCHANGED <<edSegs, tmpDir, tmpFile, edited, edOut>>
    /\ OthersUnchanged("editor")

\* with open(tmp) as f: edited = f.read(), inside try
ReadBack ==
    /\ edpc = "edited"
    /\ \/ edited' = tmpContent /\ edErr' = "none"
       \/ edited' = <<>> /\ edErr' \in {"OSError", "UnicodeDecodeError"}
    /\ edpc' = "cleanup"
    /\ UNCHANGED <<edSegs, tmpDir, tmpFile, tmpContent, edExit, edOut>>
    /\ OthersUnchanged("editor")

\* finally: os.unlink(tmp); then the exception goes on, if there is one
Unlink ==
    /\ edpc = "cleanup"
    /\ tmpFile' = FALSE
    /\ tmpContent' = <<>>
    /\ edpc' = IF edErr = "none" THEN "parse" ELSE "raised"
    /\ UNCHANGED <<edSegs, tmpDir, edExit, edited, edErr, edOut>>
    /\ OthersUnchanged("editor")

\* return from_editable(edited)
ParseEdited ==
    /\ edpc = "parse"
    /\ edOut' = FromEditableSegs(edited)
    /\ edpc' = "returned"
    /\ UNCHANGED <<edSegs, tmpDir, tmpFile, tmpContent, edExit, edited, edErr>>
    /\ OthersUnchanged("editor")

NextEditor ==
    \/ CreateTemp
    \/ WriteText
    \/ RunEditor
    \/ ReadBack
    \/ Unlink
    \/ ParseEdited

SpecEditor == InitEditor /\ [][NextEditor]_vars

(***************************************************************************)
(* Claims about edit().                                                    *)
(***************************************************************************)
\* edit() has returned or raised.
EditOver == edpc \in {"returned", "raised"}

\* C17 as stated: on every exit path of edit() - the editor exits 0 or not,
\* cannot be started, or writing or reading back the text raises - the
\* staging file, once created, no longer exists when edit() returns or
\* raises.
C17_StagingFileDeleted == EditOver => ~tmpFile

\* Writing the text raised: edit() is over and the staging file is there.
C17_Witness ==
    /\ edpc = "raised"
    /\ edErr = "UnicodeEncodeError"
    /\ edExit = "notrun"
    /\ tmpFile

\* C18: when the editor is missing or exits non-zero, edit() raises that
\* error, and only after the staging file is removed; no segments are
\* returned and the file's content is neither read back nor parsed.
C18_EditorFailureIsHard ==
    edExit \in {"nonzero", "missing"} =>
        /\ edpc \in {"cleanup", "raised"}
        /\ edErr = IF edExit = "nonzero" THEN "CalledProcessError" ELSE "FileNotFoundError"
        /\ edited = <<>>
        /\ edOut = <<>>
        /\ edpc = "raised" => ~tmpFile

\* The editor rewrote the file and exited non-zero: edit() raised, the file
\* is gone, nothing was returned.
C18_Witness ==
    /\ edpc = "raised"
    /\ edExit = "nonzero"
    /\ edErr = "CalledProcessError"
    /\ edSegs # <<>>
    /\ ~tmpFile
    /\ edOut = <<>>

\* C19 as stated: once the editor has run, whether edit() returns or raises
\* because the editor failed, neither the staging file nor the directory
\* that held it exists.
C19_StagingDirDeleted == (EditOver /\ edExit # "notrun") => (~tmpFile /\ ~tmpDir)

\* edit() returned: the file is gone, its directory is still there.
C19_Witness ==
    /\ edpc = "returned"
    /\ edExit = "zero"
    /\ ~tmpFile
    /\ tmpDir

(***************************************************************************)
(* batch() (mn/cli.py) with transcribe_and_diarize (mn/transcribe.py): the *)
(* loading of the two models and the loop over the files.  A handle is the *)
(* number of the load that made it, 0 is None.                             *)
(***************************************************************************)
InitBatch ==
    /\ OthersOff("batch")
    /\ bFiles \in 0..MaxFiles
    /\ bNext = 1
    /\ whisper = 0
    /\ diarizer = 0
    /\ whisperLoads = 0
    /\ diarizerLoads = 0
    /\ bCalls = <<>>
    /\ bWritten = <<>>
    /\ bFailed = <<>>
    /\ bpc = "start"

\* if not files: _die(...)
NoFiles ==
    /\ bpc = "start"
    /\ bFiles = 0
    /\ bpc' = "exit"
    /\ UNCHANGED <<bFiles, bNext, whisper, diarizer, whisperLoads, diarizerLoads, bCalls, bWritten, bFailed>>
    /\ OthersUnchanged("batch")

\* whisper = _transcribe.load_whisper(...): the model, or _die on an error
LoadWhisper ==
    /\ bpc = "start"
    /\ bFiles > 0
    /\ whisperLoads' = whisperLoads + 1
    /\ \/ whisper' = whisperLoads + 1 /\ bpc' = "loadDiarizer"
       \/ whisper' = whisper /\ bpc' = "exit"
    /\ UNCHANGED <<bFiles, bNext, diarizer, diarizerLoads, bCalls, bWritten, bFailed>>
    /\ OthersUnchanged("batch")

\* diarizer = _transcribe.load_diarizer(): the pipeline, or _die on an error
LoadDiarizer ==
    /\ bpc = "loadDiarizer"
    /\ diarizerLoads' = diarizerLoads + 1
    /\ \/ diarizer' = diarizerLoads + 1 /\ bpc' = "loop"
       \/ diarizer' = diarizer /\ bpc' = "exit"
    /\ UNCHANGED <<bFiles, bNext, whisper, whisperLoads, bCalls, bWritten, bFailed>>
    /\ OthersUnchanged("batch")

\* _check_audio_file fails: _die outside the try, batch() ends
CheckFails ==
    /\ bpc = "loop"
    /\ bNext <= bFiles
    /\ bpc' = "exit"
    /\ UNCHANGED <<bFiles, bNext, whisper, diarizer, whisperLoads, diarizerLoads, bCalls, bWritten, bFailed>>
    /\ OthersUnchanged("batch")

\* if _model is None: load_whisper(...) / if _pipeline is None: load_diarizer(...)
\* how many loads a call of transcribe() or diarize() with this handle makes
LoadsFor(handle) == IF handle = 0 THEN 1 ELSE 0

\* How the turn of one file can end: the output file is written, or a
\* stage raises.  Transcription: the errors _transcribe_audio expects.
\* Summarization: the three errors _call_summarize expects, and the
\* RuntimeError complete() raises on a response of unexpected format.
FileOutcomes ==
    {[stage |-> "written", exc |-> "none"]}
        \cup {[stage |-> "transcribe", exc |-> e] : e \in {"OSError", "RuntimeError", "ValueError"}}
        \cup {[stage |-> "summarize", exc |-> e] :
                  e \in {"RemoteEndpointError", "ConnectError", "HTTPStatusError", "RuntimeError"}}

\* The exception is turned into _die, that is SystemExit, which the loop
\* catches: except (OSError, RuntimeError, ValueError) in _transcribe_audio,
\* except RemoteEndpointError / ConnectError / HTTPStatusError in
\* _call_summarize.
DiesCleanly(out) ==
    \/ out.stage = "transcribe" /\ out.exc \in {"OSError", "RuntimeError", "ValueError"}
    \/ out.stage = "summarize" /\ out.exc \in {"RemoteEndpointError", "ConnectError", "HTTPStatusError"}

\* Faulty variant of ProcessFile: the handles are not passed on.
ProcessFileNoHandles ==
    /\ bpc = "loop"
    /\ bNext <= bFiles
    /\ whisperLoads' = whisperLoads + LoadsFor(0)
    /\ diarizerLoads' = diarizerLoads + LoadsFor(0)
    /\ \E out \in FileOutcomes :
           /\ bCalls' = Append(bCalls, [w |-> 0, d |-> 0, stage |-> out.stage, exc |-> out.exc])
           /\ IF out.stage = "written"
              THEN /\ bWritten' = Append(bWritten, bNext)
                   /\ UNCHANGED <<bFailed, bpc>>
                   /\ bNext' = bNext + 1
              ELSE IF DiesCleanly(out)
              THEN /\ bFailed' = Append(bFailed, bNext)
                   /\ UNCHANGED <<bWritten, bpc>>
                   /\ bNext' = bNext + 1
              ELSE /\ bpc' = "crashed"
                   /\ UNCHANGED <<bWritten, bFailed, bNext>>
    /\ UNCHANGED <<bFiles, whisper, diarizer>>
    /\ OthersUnchanged("batch")

\* One turn of the loop: _transcribe_audio(args, _whisper=whisper,
\* _diarizer=diarizer) -> transcribe_and_diarize -> transcribe(_model) and
\* diarize(_pipeline); then the output file is written, or SystemExit puts
\* the file on `failed`, or another exception leaves batch()
ProcessFile ==
    /\ bpc = "loop"
    /\ bNext <= bFiles
    /\ whisperLoads' = whisperLoads + LoadsFor(whisper)
    /\ diarizerLoads' = diarizerLoads + LoadsFor(diarizer)
    /\ \E out \in FileOutcomes :
           /\ bCalls' = Append(bCalls, [w |-> whisper, d |-> diarizer, stage |-> out.stage, exc |-> out.exc])
           /\ IF out.stage = "written"
              THEN /\ bWritten' = Append(bWritten, bNext)
                   /\ UNCHANGED <<bFailed, bpc>>
                   /\ bNext' = bNext + 1
              ELSE IF DiesCleanly(out)
              THEN /\ bFailed' = Append(bFailed, bNext)
                   /\ UNCHANGED <<bWritten, bpc>>
                   /\ bNext' = bNext + 1
              ELSE /\ bpc' = "crashed"
                   /\ UNCHANGED <<bWritten, bFailed, bNext>>
    /\ UNCHANGED <<bFiles, whisper, diarizer>>
    /\ OthersUnchanged("batch")

\* The loop is over: the summary is printed.
BatchDone ==
    /\ bpc = "loop"
    /\ bNext > bFiles
    /\ bpc' = "done"
    /\ UNCHANGED <<bFiles, bNext, whisper, diarizer, whisperLoads, diarizerLoads, bCalls, bWritten, bFailed>>
    /\ OthersUnchanged("batch")

NextBatch ==
    \/ NoFiles
    \/ LoadWhisper
    \/ LoadDiarizer
    \/ CheckFails
    \/ ProcessFile
    \/ BatchDone

SpecBatch == InitBatch /\ [][NextBatch]_vars

\* C20: in batch() each of the two models is loaded once, before any file
\* is processed, however many files there are; every call of
\* transcribe_and_diarize receives those two handles and loads nothing.
C20_ModelsLoadedOnce ==
    /\ whisperLoads <= 1
    /\ diarizerLoads <= 1
    /\ bpc \in {"loop", "done"} => (whisperLoads = 1 /\ diarizerLoads = 1)
    /\ \A k \in 1..Len(bCalls) :
           /\ bCalls[k].w = whisper
           /\ bCalls[k].d = diarizer
           /\ bCalls[k].w # 0
           /\ bCalls[k].d # 0
    /\ bCalls # <<>> => (whisperLoads = 1 /\ diarizerLoads = 1)

\* Four files went through the loop, one of them failed, each model was
\* loaded once.
C20_Witness ==
    /\ bpc = "done"
    /\ bFiles = 4
    /\ Len(bCalls) = 4
    /\ Len(bFailed) = 1
    /\ whisperLoads = 1
    /\ diarizerLoads = 1

(***************************************************************************)
(* The shape of the text to_jsonl writes.                                  *)
(***************************************************************************)
\* The line is one JSON object whose keys are speaker, text, start, end,
\* once each and in this order, with the segment's values.
IsSegmentLine(line, seg) ==
    LET Holds(r) ==
            /\ r.ok
            /\ r.kind = "object"
            /\ [k \in 1..Len(r.val) |-> r.val[k][1]] = <<KeySpeaker, KeyText, KeyStart, KeyEnd>>
            /\ [k \in 1..Len(r.val) |-> r.val[k][2]] = <<seg.speaker, seg.text, seg.start, seg.end>>
    IN  Holds(JsonLoads(line))

\* C24: to_jsonl writes one line per segment, in order, each a JSON object
\* with exactly the keys speaker, text, start, end; the lines are joined by
\* one newline and none ends the text; a newline in a segment's text adds
\* no line; the empty list gives the empty string.
C24_OneLinePerSegment ==
    (jpc = "text" /\ jlines = <<>>) =>
        LET Shape(lines) ==
                /\ Len(lines) = Len(jsegs)
                /\ \A i \in 1..Len(jsegs) : IsSegmentLine(lines[i], jsegs[i])
        IN  IF jsegs = <<>> THEN jtext = <<>>
            ELSE /\ jtext[Len(jtext)] # NL
                 /\ Shape(Split(jtext, NL))

\* C24 witness: two segments were written to two lines, the first with a
\* newline in its text.
C24_Witness ==
    /\ jpc = "text"
    /\ jlines = <<>>
    /\ Len(jsegs) = 2
    /\ jsegs[1].text = <<"n", NL>>
    /\ Len(Split(jtext, NL)) = 2

(***************************************************************************)
(* The shape of the text to_editable writes.                               *)
(***************************************************************************)
\* MM:SS for n whole seconds: the minutes and the seconds below 60 that
\* make up n, each of two digits at least.
Clock(n) ==
    LET sec == CHOOSE sec \in 0..59 : (n - sec) % 60 = 0
    IN  Fmt02d((n - sec) \div 60) \o <<":">> \o Fmt02d(sec)

\* The lines of the block of one segment: the header line, then the text.
BlockLines(seg) ==
    Split(<<"[">> \o Clock(IntOfSeconds(seg.start)) \o <<" ", ARROW, " ">>
              \o Clock(IntOfSeconds(seg.end)) \o <<"]", " ">> \o seg.speaker \o <<":">>
              \o <<NL>> \o seg.text,
          NL)

\* The text is made of the blocks of esegs in order, an empty line after
\* each, and nothing else.
BlocksInOrder ==
    LET Check(lines, blocks) ==
            LET From[i \in 1..(Len(blocks) + 1)] ==
                    IF i = 1 THEN 1 ELSE From[i - 1] + Len(blocks[i - 1]) + 1
            IN  /\ Len(lines) = From[Len(blocks) + 1] - 1
                /\ \A i \in 1..Len(blocks) :
                       /\ SubSeq(lines, From[i], From[i + 1] - 2) = blocks[i]
                       /\ lines[From[i + 1] - 1] = <<>>
    IN  Check(Split(etext, NL), [i \in 1..Len(esegs) |-> BlockLines(esegs[i])])

\* C25: to_editable writes one block per segment, in order: the header
\* line "[MM:SS -> MM:SS] speaker:" and after it the segment's text as it
\* is; one empty line stands between two blocks, the text ends with a
\* newline, and the empty list gives a single newline.
C25_BlocksRendered ==
    [][epc = "segments" =>
           /\ etext'[Len(etext')] = NL
           /\ IF esegs' = <<>> THEN etext' = <<NL>> ELSE BlocksInOrder']_vars

\* C25 witness: two segments were rendered, the first with a text of two
\* paragraphs and a start beyond the hour.
C25_Witness ==
    /\ epc = "text"
    /\ Len(esegs) = 2
    /\ esegs[1].text = <<"a", NL, NL, "b">>
    /\ esegs[1].start = 3661500
    /\ etext # <<>>

(***************************************************************************)
(* Parsing an edited text, writing the result and parsing it again.        *)
(***************************************************************************)
\* C28: for every text t, with r = from_editable(t),
\* from_editable(to_editable(r)) = r: as many segments, each with the same
\* speaker, text, start and end.
C28_ParsedIsNormalForm ==
    epc = "parsed" => FromEditableSegs(ToEditableText(eout)) = eout

\* C28 witness: a text of a header and of a line that reads as a header
\* but for the blank at its end was parsed to one segment.
C28_Witness ==
    /\ epc = "parsed"
    /\ Len(elines) = 2
    /\ elines[1].kind = "header"
    /\ elines[2].kind = "noise"
    /\ Len(eout) = 1
    /\ eout[1].text # <<>>

(***************************************************************************)
(* from_editable on any text.                                              *)
(***************************************************************************)
\* C29: from_editable is total: for every text it returns a list of
\* segments and does not raise; a line whose timestamps read digits:digits
\* is a header and its timestamps always parse.
C29_FromEditableTotal ==
    epc \in {"parsed", "raised"} =>
        /\ epc = "parsed"
        /\ Len(eout) = Cardinality({i \in 1..Len(Split(etext, NL)) : MatchHeader(Split(etext, NL)[i]).ok})

\* C29 witness: from_editable was called on a text with a header whose
\* start has 307 digits, and the call is over.
C29_Witness ==
    /\ epc = "raised"
    /\ Len(elines) = 2
    /\ elines[1].kind = "header"
    /\ FloatOverflows(elines[1].chars)
    /\ elines[2].chars = <<"h", "i">>
    /\ eout.err = "OverflowError"

(***************************************************************************)
(* align() and the words it is given.                                      *)
(***************************************************************************)
\* The segments are the words cut into runs at the places `starts`: the
\* text of the k-th segment is the trimmed texts of the k-th run.
CutAt(starts) ==
    /\ Len(segments) = Len(starts)
    /\ \A k \in 1..Len(starts) :
           IsTrimOf(segments[k].text,
                    RawText(starts[k],
                            IF k = Len(starts) THEN Len(words) ELSE starts[k + 1] - 1))

\* C30: for a non-empty word list, with or without turns, the segments
\* align() returns cut the word list into contiguous non-empty runs in
\* input order: no word is dropped or duplicated, and there is at least
\* one segment and at most one for each word.
C30_WordsConserved ==
    (pc # "ready" /\ words # <<>>) =>
        /\ 1 <= Len(segments)
        /\ Len(segments) <= Len(words)
        /\ \E cuts \in SUBSET (2..Len(words)) : CutAt(SortedSeq({1} \cup cuts))

\* C30 witness: three words were merged into two segments.
C30_Witness ==
    /\ pc = "merged"
    /\ Len(words) = 3
    /\ Len(segments) = 2
    /\ Len(segments[1].text) + Len(segments[2].text) >= 4

(***************************************************************************)
(* batch(): what becomes of each file.                                     *)
(***************************************************************************)
Written == {bWritten[k] : k \in 1..Len(bWritten)}

OnFailed == {bFailed[k] : k \in 1..Len(bFailed)}

\* C21: when transcription or summarization fails for a file, batch()
\* goes on with the remaining files and runs to completion; an output file
\* is written for exactly the files that did not fail, and every failed
\* file is recorded on the list the summary reports.
C21_FailureDoesNotStopBatch ==
    \A k \in 1..Len(bCalls) :
        IF bCalls[k].stage \in {"transcribe", "summarize"}
        THEN /\ bpc # "crashed"
             /\ k \in OnFailed
             /\ k \notin Written
        ELSE /\ k \in Written
             /\ k \notin OnFailed

\* C21 witness: of three files the second failed in summarization with a
\* connection error; the run is over, two files are written and the second
\* is on the list.
C21_Witness ==
    /\ bpc = "done"
    /\ bFiles = 3
    /\ bCalls[2].stage = "summarize"
    /\ bCalls[2].exc = "ConnectError"
    /\ bWritten = <<1, 3>>
    /\ bFailed = <<2>>

\* C27: batch() gives every file its turn, once and in order, whatever
\* became of the files before it (validation failed, transcription failed,
\* summarization failed, written); when it is over every file is either
\* written or on the failed list, not both and not neither, and the number
\* of written files is the number of files less the failed ones.
C27_EveryFileAttemptedOnce ==
    (bpc \in {"done", "exit", "crashed"} /\ whisper # 0 /\ diarizer # 0) =>
        /\ bNext = bFiles + 1
        /\ \A i \in 1..bFiles : (i \in Written) # (i \in OnFailed)
        /\ Len(bWritten) = bFiles - Len(bFailed)
        /\ Len(bWritten) + Len(bFailed) = Cardinality(Written \cup OnFailed)

\* C27 witness: of three files the first was written and the second did
\* not pass _check_audio_file; batch() is over.
C27_Witness ==
    /\ bpc = "exit"
    /\ bFiles = 3
    /\ bNext = 2
    /\ bWritten = <<1>>
    /\ bFailed = <<>>
    /\ bCalls[1].stage = "written"

(***************************************************************************)
(* complete() (mn/summarize.py): the gate before the request.  A URL is a  *)
(* sequence of characters.                                                 *)
(***************************************************************************)
\* str.lower()
Lower(str) ==
    LET upper == <<"A", "B", "C", "D", "E", "F", "G", "H", "I", "J", "K", "L", "M", "N", "O", "P", "Q", "R", "S", "T", "U", "V", "W", "X", "Y", "Z">>
        lower == <<"a", "b", "c", "d", "e", "f", "g", "h", "i", "j", "k", "l", "m", "n", "o", "p", "q", "r", "s", "t", "u", "v", "w", "x", "y", "z">>
    IN  [i \in 1..Len(str) |->
            IF \E k \in 1..26 : upper[k] = str[i]
            THEN lower[CHOOSE k \in 1..26 : upper[k] = str[i]]
            ELSE str[i]]

\* The first place from `from` on where one of `chars` stands, Len(str) + 1
\* when there is none.
FirstOf(str, from, chars) ==
    LET at == {i \in from..Len(str) : str[i] \in chars}
    IN  IF at = {} THEN Len(str) + 1 ELSE CHOOSE i \in at : \A j \in at : i <= j

\* urlsplit(url).netloc: what stands between "//" after the scheme and the
\* next "/", "?" or "#"; [ok, val], not ok for a bracket without its pair
Netloc(url) ==
    LET Checked(n) ==
            [ok |-> (\E i \in 1..Len(n) : n[i] = "[") = (\E i \in 1..Len(n) : n[i] = "]"),
             val |-> n]
        After(rest) ==
            IF Len(rest) >= 2 /\ rest[1] = "/" /\ rest[2] = "/"
            THEN Checked(SubSeq(rest, 3, FirstOf(rest, 3, {"/", "?", "#"}) - 1))
            ELSE [ok |-> TRUE, val |-> <<>>]
        Scheme(c) ==
            IF c <= Len(url) /\ c > 1
                   /\ \A i \in 1..(c - 1) : url[i] \notin {"/", "?", "#", "[", "]", "@"}
            THEN After(SubSeq(url, c + 1, Len(url)))
            ELSE After(url)
    IN  Scheme(FirstOf(url, 1, {":"}))

\* Faulty variant of Hostname: the user part before "@" is not cut off.
HostnameWithUser(url) ==
    LET Host(h) ==
            IF h # <<>> /\ h[1] = "["
            THEN SubSeq(h, 2, FirstOf(h, 1, {"]"}) - 1)
            ELSE SubSeq(h, 1, FirstOf(h, 1, {":"}) - 1)
        Of(n) == IF ~n.ok THEN <<>> ELSE Lower(Host(n.val))
    IN  Of(Netloc(url))

\* urlparse(url).hostname or "", and "" when urlparse raises
Hostname(url) ==
    LET Host(h) ==
            IF h # <<>> /\ h[1] = "["
            THEN SubSeq(h, 2, FirstOf(h, 1, {"]"}) - 1)
            ELSE SubSeq(h, 1, FirstOf(h, 1, {":"}) - 1)
        User(n) ==
            LET at == {i \in 1..Len(n) : n[i] = "@"}
            IN  IF at = {} THEN n
                ELSE SubSeq(n, (CHOOSE i \in at : \A j \in at : j <= i) + 1, Len(n))
        Of(n) == IF ~n.ok THEN <<>> ELSE Lower(Host(User(n.val)))
    IN  Of(Netloc(url))

\* _LOCAL_HOSTS
LOCAL_HOSTS ==
    {<<"l", "o", "c", "a", "l", "h", "o", "s", "t">>, <<"1", "2", "7", ".", "0", ".", "0", ".", "1">>, <<"0", ".", "0", ".", "0", ".", "0">>, <<":", ":", "1">>}

\* def _is_local(url)
IsLocal(url) == Hostname(url) \in LOCAL_HOSTS

\* The default of MN_API_BASE
DefaultBase == <<"h", "t", "t", "p", ":", "/", "/", "l", "o", "c", "a", "l", "h", "o", "s", "t", ":", "1", "1", "4", "3", "4", "/", "v", "1">>

\* URLs, each with the host a request to it goes to: a local one, a remote
\* one, or none when the text is no URL an HTTP client takes.
UrlPool ==
    {[kind |-> "local", chars |-> <<"h", "t", "t", "p", ":", "/", "/", "l", "o", "c", "a", "l", "h", "o", "s", "t", ":", "1", "1", "4", "3", "4", "/", "v", "1">>],
     [kind |-> "local", chars |-> <<"h", "t", "t", "p", ":", "/", "/", "1", "2", "7", ".", "0", ".", "0", ".", "1", "/">>],
     [kind |-> "local", chars |-> <<"h", "t", "t", "p", ":", "/", "/", "[", ":", ":", "1", "]", ":", "8", "0", "/", "v", "1", "/">>],
     [kind |-> "local", chars |-> <<"h", "t", "t", "p", ":", "/", "/", "0", ".", "0", ".", "0", ".", "0">>],
     [kind |-> "local", chars |-> <<"h", "t", "t", "p", ":", "/", "/", "L", "o", "c", "a", "l", "H", "o", "s", "t", "/", "v", "1">>],
     [kind |-> "local", chars |-> <<"h", "t", "t", "p", ":", "/", "/", "u", "@", "l", "o", "c", "a", "l", "h", "o", "s", "t", "/">>],
     [kind |-> "remote", chars |-> <<"h", "t", "t", "p", "s", ":", "/", "/", "a", "p", "i", ".", "i", "o", "/", "v", "1">>],
     [kind |-> "remote", chars |-> <<"h", "t", "t", "p", ":", "/", "/", "l", "o", "c", "a", "l", "h", "o", "s", "t", ":", "8", "0", "@", "x", ".", "i", "o", "/", "v", "1">>],
     [kind |-> "remote", chars |-> <<"h", "t", "t", "p", ":", "/", "/", "x", ".", "i", "o", "/", "l", "o", "c", "a", "l", "h", "o", "s", "t">>],
     [kind |-> "remote", chars |-> <<"h", "t", "t", "p", ":", "/", "/", "l", "o", "c", "a", "l", "h", "o", "s", "t", ".", "x", ".", "i", "o">>],
     [kind |-> "remote", chars |-> <<"h", "t", "t", "p", ":", "/", "/", "x", ".", "i", "o", "#", "@", "l", "o", "c", "a", "l", "h", "o", "s", "t">>],
     [kind |-> "none", chars |-> <<"l", "o", "c", "a", "l", "h", "o", "s", "t", ":", "8", "0">>],
     [kind |-> "none", chars |-> <<"h", "t", "t", "p", ":", "/", "/", "[", ":", ":", "1">>]}

\* str.rstrip("/")
RStripSlash(str) ==
    LET keep == {i \in 1..Len(str) : str[i] # "/"}
    IN  IF keep = {} THEN <<>> ELSE SubSeq(str, 1, CHOOSE i \in keep : \A j \in keep : j <= i)

\* complete() is called: base_url is None, "" or a URL; MN_API_BASE is not
\* set, empty or a URL.
InitComplete ==
    /\ OthersOff("complete")
    /\ \E u \in {<<>>} \cup {e.chars : e \in UrlPool} : \E a \in BOOLEAN :
           cArgs = [base_url |-> u, allow_remote |-> a]
    /\ \/ cEnv = [set |-> FALSE, val |-> <<>>]
       \/ \E u \in {<<>>} \cup {e.chars : e \in UrlPool} : cEnv = [set |-> TRUE, val |-> u]
    /\ cUrl = <<>>
    /\ cSent = <<>>
    /\ cpc = "called"

\* base_url = base_url or os.environ.get("MN_API_BASE", default); then the
\* gate: raise RemoteEndpointError, or go on (with a warning when remote)
Gate ==
    /\ cpc = "called"
    /\ cUrl' = IF cArgs.base_url # <<>> THEN cArgs.base_url
               ELSE IF cEnv.set THEN cEnv.val
               ELSE DefaultBase
    /\ cpc' = IF ~IsLocal(cUrl') /\ ~cArgs.allow_remote THEN "RemoteEndpointError" ELSE "checked"
    /\ UNCHANGED <<cArgs, cEnv, cSent>>
    /\ OthersUnchanged("complete")

\* resp = httpx.post(f"{base_url.rstrip('/')}/chat/completions", ...); then
\* the content is returned, or the request or the response raises
Post ==
    /\ cpc = "checked"
    /\ cSent' = Append(cSent, RStripSlash(cUrl) \o <<"/", "c", "h", "a", "t", "/", "c", "o", "m", "p", "l", "e", "t", "i", "o", "n", "s">>)
    /\ cpc' \in {"returned", "ConnectError", "HTTPStatusError", "RuntimeError"}
    /\ UNCHANGED <<cArgs, cEnv, cUrl>>
    /\ OthersUnchanged("complete")

NextComplete ==
    \/ Gate
    \/ Post

SpecComplete == InitComplete /\ [][NextComplete]_vars

\* The kind of host a request built on the URL goes to.
HostKind(url) ==
    IF \E e \in UrlPool : e.chars = url
    THEN (CHOOSE e \in UrlPool : e.chars = url).kind
    ELSE "none"

\* C22: complete() sends no request to a host other than localhost,
\* 127.0.0.1, 0.0.0.0 and ::1 unless allow_remote is true: with a base URL
\* that is not local and allow_remote false it raises RemoteEndpointError
\* before any request, whatever the other arguments and the environment.
C22_NoRemoteWithoutAllow ==
    /\ \A k \in 1..Len(cSent) :
           /\ cSent[k] = RStripSlash(cUrl) \o <<"/", "c", "h", "a", "t", "/", "c", "o", "m", "p", "l", "e", "t", "i", "o", "n", "s">>
           /\ HostKind(cUrl) = "remote" => cArgs.allow_remote
    /\ (cpc \notin {"off", "called"} /\ HostKind(cUrl) # "local" /\ ~cArgs.allow_remote) =>
           /\ cpc = "RemoteEndpointError"
           /\ cSent = <<>>

\* C22 witness: base_url was not given, MN_API_BASE names a remote host
\* behind a user part that reads localhost, allow_remote is false:
\* complete() raised and nothing was sent.
C22_Witness ==
    /\ cpc = "RemoteEndpointError"
    /\ cArgs = [base_url |-> <<>>, allow_remote |-> FALSE]
    /\ cEnv.set
    /\ cUrl = <<"h", "t", "t", "p", ":", "/", "/", "l", "o", "c", "a", "l", "h", "o", "s", "t", ":", "8", "0", "@", "x", ".", "i", "o", "/", "v", "1">>
    /\ cSent = <<>>

(***************************************************************************)
(* Config precedence: argparse (mn/cli.py), then apply_config              *)
(* (mn/config.py).  A value is [type, v]; None is a value of its own, and  *)
(* NotGiven stands for a flag or a config key that is not there.           *)
(***************************************************************************)
None == [type |-> "NoneType", v |-> "None"]
NotGiven == [type |-> "absent", v |-> "absent"]

\* Keys of the sections [transcribe] and [summarize], by the attribute
\* they are mapped to.
ConfigKeys == {"model", "device", "num_speakers", "base_url"}

\* add_argument(..., default=...)
ArgDefault(key) ==
    IF key = "model" THEN [type |-> "str", v |-> "base"]
    ELSE IF key = "device" THEN [type |-> "str", v |-> "cpu"]
    ELSE None

\* _EXPECTED_TYPES
ExpectedType(key) == IF key = "num_speakers" THEN "int" ELSE "str"

\* isinstance(value, expected): bool is a subclass of int
IsInstance(value, expected) ==
    \/ value.type = expected
    \/ value.type = "bool" /\ expected = "int"

\* def _apply_section(args, section, mapping)
ApplySection(args, section) ==
    [key \in ConfigKeys |->
        IF args[key] # None THEN args[key]
        ELSE IF section[key] = NotGiven THEN args[key]
        ELSE IF ~IsInstance(section[key], ExpectedType(key)) THEN args[key]
        ELSE section[key]]

\* A command line and a config file: each key given or not, the config
\* value of the expected type, of another type, or a boolean.
InitConfig ==
    /\ OthersOff("config")
    /\ fFlags \in [ConfigKeys -> {NotGiven, [type |-> "cli", v |-> "flag"]}]
    /\ fConfig \in [ConfigKeys -> {NotGiven, [type |-> "cfg", v |-> "config"],
                                   [type |-> "float", v |-> "config"], [type |-> "bool", v |-> "config"]}]
    /\ fArgs = <<>>
    /\ fpc = "start"

\* The type a value has for this key: a flag's value has the type argparse
\* gives it, a config value marked cfg has the expected type.
Typed(key, value) ==
    IF value.type \in {"cli", "cfg"} THEN [type |-> ExpectedType(key), v |-> value.v] ELSE value

\* args = p.parse_args()
ParseArgs ==
    /\ fpc = "start"
    /\ fArgs' = [key \in ConfigKeys |->
                    IF fFlags[key] = NotGiven THEN ArgDefault(key) ELSE Typed(key, fFlags[key])]
    /\ fpc' = "parsed"
    /\ UNCHANGED <<fFlags, fConfig>>
    /\ OthersUnchanged("config")

\* apply_config(args, load_config())
ApplyConfig ==
    /\ fpc = "parsed"
    /\ fArgs' = ApplySection(fArgs, [key \in ConfigKeys |-> Typed(key, fConfig[key])])
    /\ fpc' = "applied"
    /\ UNCHANGED <<fFlags, fConfig>>
    /\ OthersUnchanged("config")

NextConfig ==
    \/ ParseArgs
    \/ ApplyConfig

SpecConfig == InitConfig /\ [][NextConfig]_vars

\* C23: after parse_args and apply_config every mapped key holds the
\* command-line value if the flag was given, else the config file's value
\* if the key is there with the expected type, else the built-in default;
\* a flag that was given is never replaced by a config value.
C23_FlagThenConfigThenDefault ==
    fpc = "applied" =>
        \A key \in ConfigKeys :
            fArgs[key] =
                IF fFlags[key] # NotGiven THEN [type |-> ExpectedType(key), v |-> "flag"]
                ELSE IF fConfig[key].type = "cfg" THEN [type |-> ExpectedType(key), v |-> "config"]
                ELSE ArgDefault(key)

\* C23 witness: --model and --base-url were not given, the config file has
\* a model and a base_url; after apply_config base_url holds the config
\* value and model holds "base".
C23_Witness ==
    /\ fpc = "applied"
    /\ fFlags["model"] = NotGiven
    /\ fFlags["base_url"] = NotGiven
    /\ fConfig["model"].type = "cfg"
    /\ fConfig["base_url"].type = "cfg"
    /\ fArgs["base_url"].v = "config"
    /\ fArgs["model"].v = "base"

(***************************************************************************)
(* record() (mn/record.py): the SIGINT handler around the recording.       *)
(***************************************************************************)
\* record() is called with or without a duration; the process has its
\* original SIGINT handler.
InitRecord ==
    /\ OthersOff("record")
    /\ sigint = "original"
    /\ rDuration \in BOOLEAN
    /\ rStop = FALSE
    /\ rFrames = 0
    /\ rpc = "called"

\* prev_handler = signal.signal(signal.SIGINT, _stop)
InstallHandler ==
    /\ rpc = "called"
    /\ sigint' = "_stop"
    /\ rpc' = "installed"
    /\ UNCHANGED <<rDuration, rStop, rFrames>>
    /\ OthersUnchanged("record")

\* print(f"Recording ...", file=sys.stderr), before the try: it prints, or
\* raises and record() is left
Announce ==
    /\ rpc = "installed"
    /\ rpc' \in {"try", "PrintRaised"}
    /\ UNCHANGED <<sigint, rDuration, rStop, rFrames>>
    /\ OthersUnchanged("record")

\* with sd.InputStream(...): the stream opens
OpenStream ==
    /\ rpc = "try"
    /\ rpc' = "recording"
    /\ UNCHANGED <<sigint, rDuration, rStop, rFrames>>
    /\ OthersUnchanged("record")

\* _callback: frames.append(indata.copy())
Capture ==
    /\ rpc = "recording"
    /\ rFrames < MaxFrames
    /\ rFrames' = rFrames + 1
    /\ UNCHANGED <<sigint, rDuration, rStop, rpc>>
    /\ OthersUnchanged("record")

\* Ctrl-C while _stop is the handler: stop = True
CtrlC ==
    /\ sigint = "_stop"
    /\ rpc \in {"installed", "try", "recording"}
    /\ rStop' = TRUE
    /\ UNCHANGED <<sigint, rDuration, rFrames, rpc>>
    /\ OthersUnchanged("record")

\* The with block ends (sd.sleep(duration) returned, or `while not stop`
\* saw the flag), then finally: signal.signal(signal.SIGINT, prev_handler)
EndRecording ==
    /\ rpc = "recording"
    /\ rDuration \/ rStop
    /\ sigint' = "original"
    /\ rpc' = "recorded"
    /\ UNCHANGED <<rDuration, rStop, rFrames>>
    /\ OthersUnchanged("record")

\* An exception in the try block (the stream cannot be opened, sd.sleep
\* raises), then finally: signal.signal(signal.SIGINT, prev_handler)
StreamFails ==
    /\ rpc \in {"try", "recording"}
    /\ sigint' = "original"
    /\ rpc' = "StreamRaised"
    /\ UNCHANGED <<rDuration, rStop, rFrames>>
    /\ OthersUnchanged("record")

\* if not frames: return None; else sf.write(...) and return output_path
Save ==
    /\ rpc = "recorded"
    /\ rpc' \in IF rFrames = 0 THEN {"returnedNone"} ELSE {"returnedPath", "WriteRaised"}
    /\ UNCHANGED <<sigint, rDuration, rStop, rFrames>>
    /\ OthersUnchanged("record")

NextRecord ==
    \/ InstallHandler
    \/ Announce
    \/ OpenStream
    \/ Capture
    \/ CtrlC
    \/ EndRecording
    \/ StreamFails
    \/ Save

SpecRecord == InitRecord /\ [][NextRecord]_vars

\* C26: record() puts back the SIGINT handler that was there before the
\* call on every way out of the recording (the duration is over, Ctrl-C,
\* an exception while the stream is open): after record() has returned or
\* raised, the process has its original SIGINT handler.
C26_SigintRestored ==
    rpc \in {"returnedNone", "returnedPath", "WriteRaised", "StreamRaised", "PrintRaised"} =>
        sigint = "original"

\* C26 witness: recording without a duration was stopped by Ctrl-C after
\* two frames, the file was written, and the handler is the original one.
C26_Witness ==
    /\ rpc = "returnedPath"
    /\ ~rDuration
    /\ rStop
    /\ rFrames = 2
    /\ sigint = "original"

=============================================================================
